---- MODULE Spec2Model ----
(***************************************************************************)
(* Turn engine of the roguelike: Game::step_game and step_logic            *)
(* (roguelike_engine/src/game.rs), the message log and resolver it drives, *)
(* and the main loop's hand-off of resolved messages                       *)
(* (roguelike_main/src/main.rs).                                           *)
(*                                                                         *)
(* step_logic is modelled statement group by statement group: the          *)
(* variable pc is the position inside step_logic, so that the order of     *)
(* the scheduler's calls (log, resolve_messages, ai_take_turn) is visible  *)
(* in the behaviours.  The map is one row of MapWidth tiles.               *)
(***************************************************************************)
EXTENDS Integers, Sequences, FiniteSets, TLC

VARIABLES
    entities,      \* GameData.entities: live ids and the capability maps
    msg_log,       \* MsgLog: messages (not yet resolved), turn_messages
    settings,      \* GameSettings: state, turn_count, exiting
    input_action,  \* Game.input_action
    running,       \* main loop flag
    game_result,   \* GameResult returned by the last step_game call
    pc,            \* position of the main loop / step_logic
    caller,        \* which step_* function called step_logic
    locals,        \* step_logic locals: player_id, previous position, ai_id, index
    fov,           \* Map field of view: last position computed, per-turn count
    frame,         \* number of completed iterations of the main loop
    events,        \* history: scheduler/resolver events of the current turn
    momentum,      \* a Momentum value (types.rs), subject of Momentum::moved
    objects,       \* two Object values (types.rs): self and the target of its calls
    awareness,     \* an AwarenessMap value (types.rs)
    map,           \* a Map: its size and which tiles are blocked (make_map.rs)
    structures,    \* the Vec<Structure> find_structures returned last
    selection,     \* a Selection (game.rs), the positions given to it, its answer
    text           \* the characters given to a parser of make_map.rs, its answer

vars == <<entities, msg_log, settings, input_action, running, game_result, pc,
          caller, locals, fov, frame, events, momentum, objects, awareness, map,
          structures, selection, text>>

\* the values of types.rs that are exercised on their own
value_vars == <<momentum, objects, awareness, map, structures, selection, text>>

\* the arguments and answers of the functions that are called on their own
call_vars == <<selection, text>>

\* the grids of types.rs and make_map.rs
grid_vars == <<awareness, map, structures>>

\* the state of the game and of its main loop
game_vars == <<entities, msg_log, settings, input_action, running, game_result, pc,
               caller, locals, fov, frame>>

---------------------------------------------------------------------------
(* Bounds of the model *)

MapWidth == 5
MaxFrames == 3
\* width in bits of the machine integers of Momentum and Fighter (i32 scaled down)
IntBits == 5
\* size of the grids of AwarenessMap and of the Map handed to make_map.rs
GridWidth == 3
GridHeight == 3
\* largest Fighter statistic and momentum cap the game configures
MaxStat == 5
\* longest line given to remove_commas
MaxLine == 5
\* largest character grid given to parse_ascii_chars
MaxRows == 6
MaxCols == 5

---------------------------------------------------------------------------
(* Program constants *)

SPIKE_DAMAGE == 2
FOV_RADIUS_PLAYER == 2
FOV_RADIUS_MONSTER == 2
\* turns a sound entity lasts (its count_down when it is made)
SOUND_COUNT_DOWN == 2
\* how far the sound of a landing stone, of a yell and of a step carries
SOUND_RADIUS_STONE == 1
PLAYER_YELL_RADIUS == 1
SOUND_RADIUS_WALK == 1

PlayerId == 1
GolId == 2
ElfId == 3
SpikesId == 4
StoneId == 5
KeyId == 6
Spikes2Id == 7
ExitPos == MapWidth - 1

Positions == 0 .. (MapWidth - 1)

---------------------------------------------------------------------------
(* Map-like helpers for the capability tables (HashMap insert / remove) *)

Insert(f, k, v) == [x \in (DOMAIN f) \cup {k} |-> IF x = k THEN v ELSE f[x]]

Remove(f, k) == [x \in (DOMAIN f) \ {k} |-> f[x]]

Has(f, k) == k \in DOMAIN f

Abs(n) == IF n < 0 THEN -n ELSE n

Signum(n) == IF n < 0 THEN -1 ELSE IF n > 0 THEN 1 ELSE 0

Max(a, b) == IF a > b THEN a ELSE b

SeqToSet(s) == {s[i] : i \in 1 .. Len(s)}

\* Vec::retain / filter over a sequence, order preserved
RECURSIVE Filter(_, _)
Filter(s, keep) ==
    IF s = <<>> THEN <<>>
    ELSE IF Head(s) \in keep THEN <<Head(s)>> \o Filter(Tail(s), keep)
         ELSE Filter(Tail(s), keep)

---------------------------------------------------------------------------
(* Behavior, Action and Msg values *)

Idle == [b |-> "Idle"]

Investigating(p) == [b |-> "Investigating", pos |-> p]

Attacking(t) == [b |-> "Attacking", target |-> t]

NoAction == [type |-> "NoAction"]

Pass == [type |-> "Pass"]

Move(d) == [type |-> "Move", dx |-> d]

StateChange(b) == [type |-> "StateChange", behavior |-> b]

UseItem(p) == [type |-> "UseItem", pos |-> p]

ThrowItem(p, i) == [type |-> "ThrowItem", pos |-> p, item |-> i]

MsgAction(id, a) == [kind |-> "Action", id |-> id, action |-> a]

MsgMoved(id, m, p) == [kind |-> "Moved", id |-> id, movement |-> m, pos |-> p]

MsgAttack(a, t, d) == [kind |-> "Attack", attacker |-> a, target |-> t, damage |-> d]

MsgKilled(a, t, d) == [kind |-> "Killed", attacker |-> a, target |-> t, damage |-> d]

MsgSpikeTrapTriggered(t, v) == [kind |-> "SpikeTrapTriggered", trap |-> t, victim |-> v]

MsgStoneThrow(t, i, s, e) ==
    [kind |-> "StoneThrow", thrower |-> t, item |-> i, start |-> s, end |-> e]

MsgChangeLevel == [kind |-> "ChangeLevel"]

---------------------------------------------------------------------------
(* MsgLog: log appends at the tail, pop takes the oldest message and      *)
(* retains it in turn_messages, clear empties both sequences.             *)

MsgLogNew == [messages |-> <<>>, turn_messages |-> <<>>]

Log(ml, msg) == [ml EXCEPT !.messages = Append(@, msg)]

LogAll(ml, msgs) == [ml EXCEPT !.messages = @ \o msgs]

\* variant: the newest message is taken
PopNewest(ml) == [ml EXCEPT !.messages = SubSeq(@, 1, Len(@) - 1),
                            !.turn_messages = Append(@, ml.messages[Len(ml.messages)])]

Pop(ml) == [ml EXCEPT !.messages = Tail(@),
                      !.turn_messages = Append(@, Head(ml.messages))]

\* the message the last pop handed out
Popped(ml) == ml.turn_messages[Len(ml.turn_messages)]

Clear(ml) == [ml EXCEPT !.messages = <<>>, !.turn_messages = <<>>]

---------------------------------------------------------------------------
(* Entity store *)

\* GameData::find_player: the id of the entity named "player", 0 if none
FindPlayer(e) ==
    IF \E id \in SeqToSet(e.ids) : e.name[id] = "player"
    THEN CHOOSE id \in SeqToSet(e.ids) : e.name[id] = "player"
    ELSE 0

\* Entities::remove: purge the id from the live list and every capability
EntitiesRemove(e, id) ==
    [ids           |-> Filter(e.ids, SeqToSet(e.ids) \ {id}),
     pos           |-> Remove(e.pos, id),
     name          |-> Remove(e.name, id),
     chr           |-> Remove(e.chr, id),
     color         |-> Remove(e.color, id),
     blocks        |-> Remove(e.blocks, id),
     alive         |-> Remove(e.alive, id),
     fighter       |-> Remove(e.fighter, id),
     ai            |-> Remove(e.ai, id),
     behavior      |-> Remove(e.behavior, id),
     action        |-> Remove(e.action, id),
     item          |-> Remove(e.item, id),
     inventory     |-> Remove(e.inventory, id),
     count_down    |-> Remove(e.count_down, id),
     needs_removal |-> Remove(e.needs_removal, id),
     animation     |-> Remove(e.animation, id)]

RECURSIVE RemoveAll(_, _)
RemoveAll(e, to_remove) ==
    IF to_remove = <<>> THEN e
    ELSE RemoveAll(EntitiesRemove(e, Head(to_remove)), Tail(to_remove))

\* variant: hp is lowered, alive is left as it is
TakeDamageOnly(e, id, damage) ==
    IF Has(e.fighter, id) /\ damage > 0
    THEN [e EXCEPT !.fighter[id].hp = @ - damage]
    ELSE e

\* Object::take_damage: positive damage lowers hp; hp <= 0 clears alive
TakeDamage(e, id, damage) ==
    LET f1 == IF Has(e.fighter, id) /\ damage > 0
              THEN [e.fighter EXCEPT ![id].hp = @ - damage]
              ELSE e.fighter
        a1 == IF Has(f1, id) /\ f1[id].hp <= 0
              THEN [e.alive EXCEPT ![id] = FALSE]
              ELSE e.alive
    IN  [e EXCEPT !.fighter = f1, !.alive = a1]

\* damage of Object::attack: attacker power minus target defense, 0 without Fighter
AttackDamage(e, attacker, target) ==
    (IF Has(e.fighter, attacker) THEN e.fighter[attacker].power ELSE 0)
  - (IF Has(e.fighter, target) THEN e.fighter[target].defense ELSE 0)

\* Object::attack: only a positive damage is applied
Attack(e, attacker, target) ==
    LET damage == AttackDamage(e, attacker, target)
    IN  IF damage > 0 THEN TakeDamage(e, target, damage) ELSE e

---------------------------------------------------------------------------
(* Momentum and Object of types.rs, as functions on values.  The integers *)
(* are machine integers of IntBits bits: an arithmetic overflow panics in *)
(* a build with overflow checks and wraps in a build without them.        *)

MinInt == -(2 ^ (IntBits - 1))
MaxInt == (2 ^ (IntBits - 1)) - 1
Int32 == MinInt .. MaxInt

\* two's complement wrap of a result
Wrap(x) == ((x - MinInt) % (2 ^ IntBits)) + MinInt

Overflows(x) == x \notin Int32

\* num::clamp
clamp(input, min, max) ==
    IF input < min THEN min ELSE IF input > max THEN max ELSE input

\* Momentum::default
MomentumDefault == [mx |-> 0, my |-> 0, took_half_turn |-> FALSE, max |-> 2]

\* variant: a reversal steps towards the new direction
MovedAxisReverse(mv, d, max) ==
    clamp(Wrap(mv + Signum(d)), Wrap(-max), max)

\* variant: the sum is not clamped
MovedAxisFree(mv, d, max) ==
    IF mv # 0 /\ Signum(d) # Signum(mv)
    THEN 0
    ELSE Wrap(mv + Signum(d))

\* variant: only an opposite direction disagrees, a zero direction keeps the axis
MovedAxisOpposite(mv, d, max) ==
    IF mv # 0 /\ Signum(d) = -Signum(mv)
    THEN 0
    ELSE clamp(Wrap(mv + Signum(d)), Wrap(-max), max)

\* one axis of Momentum::moved
MovedAxis(mv, d, max) ==
    IF mv # 0 /\ Signum(d) # Signum(mv)
    THEN 0
    ELSE clamp(Wrap(mv + Signum(d)), Wrap(-max), max)

\* Momentum::moved
moved(m, dx, dy) ==
    [m EXCEPT !.mx = MovedAxis(m.mx, dx, m.max),
              !.my = MovedAxis(m.my, dy, m.max)]

\* the additions of Momentum::moved that leave the range of the integers
MovedOverflows(m, dx, dy) ==
    \/ ~ (m.mx # 0 /\ Signum(dx) # Signum(m.mx)) /\ Overflows(m.mx + Signum(dx))
    \/ ~ (m.my # 0 /\ Signum(dy) # Signum(m.my)) /\ Overflows(m.my + Signum(dy))
    \/ Overflows(-m.max)

\* Option<Fighter>
NoFighter == [some |-> FALSE]

SomeFighter(max_hp, hp, defense, power) ==
    [some |-> TRUE, max_hp |-> max_hp, hp |-> hp, defense |-> defense, power |-> power]

\* the part of an Object the combat functions use
Object(alive, fighter) == [alive |-> alive, fighter |-> fighter]

\* variant of Object::take_damage: any damage is subtracted
take_damage_signed(o, damage) ==
    LET f1 == IF o.fighter.some
              THEN [o.fighter EXCEPT !.hp = Wrap(@ - damage)]
              ELSE o.fighter
    IN  [alive   |-> IF f1.some /\ f1.hp <= 0 THEN FALSE ELSE o.alive,
         fighter |-> f1]

\* Object::take_damage
take_damage(o, damage) ==
    LET f1 == IF o.fighter.some /\ damage > 0
              THEN [o.fighter EXCEPT !.hp = Wrap(@ - damage)]
              ELSE o.fighter
    IN  [alive   |-> IF f1.some /\ f1.hp <= 0 THEN FALSE ELSE o.alive,
         fighter |-> f1]

TakeDamageOverflows(o, damage) ==
    o.fighter.some /\ damage > 0 /\ Overflows(o.fighter.hp - damage)

\* the damage computed by Object::attack
attack_damage(self, target) ==
    Wrap((IF self.fighter.some THEN self.fighter.power ELSE 0)
         - (IF target.fighter.some THEN target.fighter.defense ELSE 0))

\* variant of Object::attack: the defense of the target is ignored
attack_undefended(self, target) ==
    LET damage == IF self.fighter.some THEN self.fighter.power ELSE 0
    IN  IF damage > 0 THEN take_damage(target, damage) ELSE target

\* Object::attack: the target after the attack (self is not changed)
attack(self, target) ==
    LET damage == attack_damage(self, target)
    IN  IF damage > 0 THEN take_damage(target, damage) ELSE target

AttackOverflows(self, target) ==
    \/ Overflows((IF self.fighter.some THEN self.fighter.power ELSE 0)
                 - (IF target.fighter.some THEN target.fighter.defense ELSE 0))
    \/ TakeDamageOverflows(target, attack_damage(self, target))

\* Object::heal
heal(o, amount) ==
    IF o.fighter.some
    THEN LET hp1 == Wrap(o.fighter.hp + amount)
         IN  [o EXCEPT !.fighter.hp = IF hp1 > o.fighter.max_hp
                                       THEN o.fighter.max_hp ELSE hp1]
    ELSE o

HealOverflows(o, amount) ==
    o.fighter.some /\ Overflows(o.fighter.hp + amount)

\* the Objects the game itself does not use
ObjectsDefault ==
    [self |-> Object(FALSE, NoFighter), target |-> Object(FALSE, NoFighter)]

\* the weight 1.0 of an AwarenessMap; weights are counted in hundredths
WeightOne == 100

\* AwarenessMap::new: weights[y][x] and alt_weights[y][x], all 0.0
AwarenessMapNew(width, height) ==
    [weights     |-> [y \in 0 .. (height - 1) |-> [x \in 0 .. (width - 1) |-> 0]],
     alt_weights |-> [y \in 0 .. (height - 1) |-> [x \in 0 .. (width - 1) |-> 0]],
     width       |-> width,
     height      |-> height]

\* variant: the sighted tile is marked, the other tiles keep their weight
expected_position_mark(a, position) ==
    [a EXCEPT !.weights =
        [y \in 0 .. (a.height - 1) |->
            [x \in 0 .. (a.width - 1) |->
                IF <<x, y>> = position THEN WeightOne ELSE a.weights[y][x]]]]

\* AwarenessMap::expected_position
expected_position(a, position) ==
    [a EXCEPT !.weights =
        [y \in 0 .. (a.height - 1) |->
            [x \in 0 .. (a.width - 1) |->
                IF <<x, y>> = position THEN WeightOne ELSE 0]]]

\* the index of AwarenessMap::visible is outside the vectors
VisibleOutOfBounds(a, position) ==
    ~ (position[1] \in 0 .. (a.width - 1) /\ position[2] \in 0 .. (a.height - 1))

\* AwarenessMap::visible
visible(a, position) ==
    [a EXCEPT !.weights[position[2]][position[1]] = 0]

\* the eight potential_positions AwarenessMap::disperse lists for a tile
potential_positions(x, y) ==
    <<<<x + 1, y>>, <<x + 1, y + 1>>, <<x + 1, y - 1>>, <<x, y + 1>>,
      <<x, y - 1>>, <<x - 1, y>>, <<x - 1, y + 1>>, <<x - 1, y - 1>>>>

\* a usize subtraction of disperse leaves the range (x - 1 or y - 1 at 0)
DisperseOverflows(a) ==
    \E y \in 0 .. (a.height - 1), x \in 0 .. (a.width - 1) :
        \E i \in 1 .. 8 : potential_positions(x, y)[i][1] < 0
                          \/ potential_positions(x, y)[i][2] < 0

\* AwarenessMap::disperse: for every tile the list of potential positions
\* is filtered by an iterator that is dropped unread; no weight is written
disperse(a) ==
    [a EXCEPT !.weights =
        [y \in 0 .. (a.height - 1) |->
            [x \in 0 .. (a.width - 1) |-> a.weights[y][x]]]]

---------------------------------------------------------------------------
(* Movement System and the resolver's handlers, one per message kind.     *)
(* A handler returns the new entity store and the messages it produced.   *)

Live(e) == SeqToSet(e.ids)

Distance(p, q) == Abs(p - q)

\* blocking entities standing on a tile, other than the mover
Blockers(e, id, dest) ==
    {o \in Live(e) \ {id} : e.pos[o] = dest /\ e.blocks[o]}

\* classification of an attempted move: Move, Attack or Collide
HandleMove(e, id, d) ==
    LET dest == e.pos[id] + d
        blk  == Blockers(e, id, dest)
        tgt  == CHOOSE o \in blk : \A o2 \in blk : o <= o2
    IN  IF d = 0 \/ dest \notin Positions
        THEN [e |-> e, out |-> <<>>]
        ELSE IF blk # {}
        THEN IF Has(e.fighter, tgt) /\ Has(e.fighter, id)
             THEN [e |-> e,
                   out |-> <<MsgAttack(id, tgt, Max(0, AttackDamage(e, id, tgt)))>>]
             ELSE [e |-> e, out |-> <<>>]
        ELSE [e |-> [e EXCEPT !.pos[id] = dest],
              out |-> <<MsgMoved(id, "Move", dest)>>]

\* Action(id, intent)
HandleAction(e, id, a) ==
    IF id \notin Live(e) THEN [e |-> e, out |-> <<>>]
    ELSE IF a.type = "Move" THEN HandleMove(e, id, a.dx)
    ELSE IF a.type = "StateChange"
         THEN [e |-> [e EXCEPT !.behavior = Insert(@, id, a.behavior)], out |-> <<>>]
    ELSE IF a.type = "ThrowItem"
         THEN [e |-> e, out |-> <<MsgStoneThrow(id, a.item, e.pos[id], a.pos)>>]
    ELSE [e |-> e, out |-> <<>>]

\* Attack(attacker, target, _): apply the damage, emit Killed at hp <= 0
HandleAttack(e, attacker, target) ==
    LET e1 == Attack(e, attacker, target)
    IN  IF Has(e1.fighter, target) /\ e1.fighter[target].hp <= 0
        THEN [e |-> e1,
              out |-> <<MsgKilled(attacker, target, Max(0, AttackDamage(e, attacker, target)))>>]
        ELSE [e |-> e1, out |-> <<>>]

\* spike traps sharing the tile of a living fighter entity
TrapsAt(e, id, p) ==
    {t \in Live(e) \ {id} : e.name[t] = "spikes" /\ e.pos[t] = p}

\* Moved(id, movement, pos): a living fighter entity triggers the traps of its tile
HandleMoved(e, id, p) ==
    LET traps == Filter(e.ids, TrapsAt(e, id, p))
    IN  IF id \in Live(e) /\ Has(e.fighter, id) /\ e.alive[id]
        THEN [e |-> e,
              out |-> [i \in 1 .. Len(traps) |-> MsgSpikeTrapTriggered(traps[i], id)]]
        ELSE [e |-> e, out |-> <<>>]

\* SpikeTrapTriggered(trap, victim): fixed damage, trap marked for removal
HandleSpikeTrapTriggered(e, trap, victim) ==
    LET e1 == TakeDamage(e, victim, SPIKE_DAMAGE)
        e2 == IF trap \in Live(e1)
              THEN [e1 EXCEPT !.needs_removal[trap] = TRUE]
              ELSE e1
    IN  IF Has(e2.fighter, victim) /\ e2.fighter[victim].hp <= 0
        THEN [e |-> e2, out |-> <<MsgKilled(trap, victim, SPIKE_DAMAGE)>>]
        ELSE [e |-> e2, out |-> <<>>]

\* variant: the victim is not marked for the sweep
HandleKilledUnmarked(e, victim) == [e |-> e, out |-> <<>>]

\* Killed(_, victim, _): cleanup bookkeeping only, the removal is left to the sweep
HandleKilled(e, victim) ==
    IF victim \in Live(e) /\ e.name[victim] # "player"
    THEN [e |-> [e EXCEPT !.needs_removal[victim] = TRUE], out |-> <<>>]
    ELSE [e |-> e, out |-> <<>>]

\* the key Entities::insert gives the next entity
NewId(e) ==
    LET used == Live(e) \cup {Spikes2Id}
    IN  1 + (CHOOSE m \in used : \A k \in used : k <= m)

\* generation::make_sound followed by Entities::insert: a sound entity at p
MakeSound(e, p) ==
    LET id == NewId(e)
    IN  [ids           |-> Append(e.ids, id),
         pos           |-> Insert(e.pos, id, p),
         name          |-> Insert(e.name, id, "sound"),
         chr           |-> Insert(e.chr, id, " "),
         color         |-> Insert(e.color, id, "white"),
         blocks        |-> Insert(e.blocks, id, FALSE),
         alive         |-> Insert(e.alive, id, FALSE),
         fighter       |-> e.fighter,
         ai            |-> e.ai,
         behavior      |-> e.behavior,
         action        |-> e.action,
         item          |-> e.item,
         inventory     |-> e.inventory,
         count_down    |-> Insert(e.count_down, id, SOUND_COUNT_DOWN),
         needs_removal |-> Insert(e.needs_removal, id, FALSE),
         animation     |-> Insert(e.animation, id, <<>>)]

\* Map::aoe_fill(AoeEffect::Sound, origin, radius).positions(): the tiles the
\* sound reaches, each once
aoe_fill(origin, radius) ==
    LET RECURSIVE From(_)
        From(p) == IF p > MapWidth - 1 THEN <<>>
                   ELSE (IF Distance(p, origin) <= radius THEN <<p>> ELSE <<>>)
                        \o From(p + 1)
    IN  From(0)

\* for pos in sound_aoe.positions() { insert(make_sound(pos, ..)) }
RECURSIVE InsertSounds(_, _)
InsertSounds(e, positions) ==
    IF positions = <<>> THEN e
    ELSE InsertSounds(MakeSound(e, Head(positions)), Tail(positions))

\* StoneThrow(thrower, stone, start, end): every tile the sound of the
\* landing stone reaches gets a sound entity with a count down
HandleStoneThrow(e, end) ==
    [e |-> InsertSounds(e, aoe_fill(end, SOUND_RADIUS_STONE)), out |-> <<>>]

\* dispatch of one message to the handler of its kind
Dispatch(e, msg) ==
    IF msg.kind = "Action" THEN HandleAction(e, msg.id, msg.action)
    ELSE IF msg.kind = "Attack" THEN HandleAttack(e, msg.attacker, msg.target)
    ELSE IF msg.kind = "Moved" THEN HandleMoved(e, msg.id, msg.pos)
    ELSE IF msg.kind = "SpikeTrapTriggered"
         THEN HandleSpikeTrapTriggered(e, msg.trap, msg.victim)
    ELSE IF msg.kind = "Killed" THEN HandleKilled(e, msg.target)
    ELSE IF msg.kind = "StoneThrow" THEN HandleStoneThrow(e, msg.end)
    ELSE [e |-> e, out |-> <<>>]

---------------------------------------------------------------------------
(* make_map.rs: wall clean-up and structure search on a Map.  A Map is    *)
(* its size and, for every position <<x, y>>, whether the tile is blocked. *)

\* Map::from_dims: no tile is blocked
MapFromDims(width, height) ==
    [width   |-> width,
     height  |-> height,
     blocked |-> [pos \in (0 .. (width - 1)) \X (0 .. (height - 1)) |-> FALSE]]

\* map[pos] = Tile::wall()
SetWall(m, pos) == [m EXCEPT !.blocked[pos] = TRUE]

\* the body of the loop of handle_diagonal_full_tile_walls for the window at (x, y)
DiagonalWindow(m, x, y) ==
    IF /\ m.blocked[<<x, y>>] /\ m.blocked[<<x + 1, y + 1>>]
       /\ ~ m.blocked[<<x + 1, y>>] /\ ~ m.blocked[<<x, y + 1>>]
    THEN SetWall(m, <<x + 1, y>>)
    ELSE IF /\ m.blocked[<<x + 1, y>>] /\ m.blocked[<<x, y + 1>>]
            /\ ~ m.blocked[<<x, y>>] /\ ~ m.blocked[<<x + 1, y + 1>>]
    THEN SetWall(m, <<x, y>>)
    ELSE m

\* the loops of handle_diagonal_full_tile_walls from window number k on:
\* rows y in 0..(height - 1), in each row x in 0..(width - 1)
RECURSIVE DiagonalFrom(_, _)
DiagonalFrom(m, k) ==
    IF m.width <= 1 \/ m.height <= 1 \/ k >= (m.width - 1) * (m.height - 1)
    THEN m
    ELSE DiagonalFrom(DiagonalWindow(m, k % (m.width - 1), k \div (m.width - 1)),
                      k + 1)

handle_diagonal_full_tile_walls(m) == DiagonalFrom(m, 0)

\* Position::move_x, Position::move_y
move_x(pos, dist_x) == <<pos[1] + dist_x, pos[2]>>

move_y(pos, dist_y) == <<pos[1], pos[2] + dist_y>>

\* the difference of two positions
sub_pos(a, b) == <<a[1] - b[1], a[2] - b[2]>>

is_within_bounds(m, pos) ==
    pos[1] \in 0 .. (m.width - 1) /\ pos[2] \in 0 .. (m.height - 1)

\* Structure::new
StructureNew == [blocks |-> <<>>, typ |-> "Single"]

\* adjacent_blocks: the blocked, unseen neighbours in the order right, down, left, up
adjacent_blocks(block, m, seen) ==
    SelectSeq(<<move_x(block, 1), move_y(block, 1), move_x(block, -1), move_y(block, -1)>>,
              LAMBDA adj : is_within_bounds(m, adj) /\ m.blocked[adj] /\ adj \notin seen)

\* process_block; st is the structure being built and the seen set
RECURSIVE process_block(_, _, _)
RECURSIVE ProcessEach(_, _, _)
process_block(block, st, m) ==
    LET adjacent == adjacent_blocks(block, m, st.seen)
        blocks   == st.structure.blocks
        len      == Len(blocks)
        typ      == IF Len(adjacent) = 1
                    THEN IF /\ st.structure.typ = "Line" /\ len > 1
                            /\ sub_pos(blocks[len - 1], blocks[len])
                                 # sub_pos(blocks[len], adjacent[1])
                         THEN "Path"
                         ELSE st.structure.typ
                    ELSE IF Len(adjacent) > 1 THEN "Complex"
                    ELSE st.structure.typ
    IN  IF Len(adjacent) >= 1
        THEN ProcessEach(adjacent,
                         [structure |-> [blocks |-> blocks \o adjacent, typ |-> typ],
                          seen      |-> st.seen \cup SeqToSet(adjacent)],
                         m)
        ELSE st

\* for adj in adjacent { process_block(adj, ..) }
ProcessEach(adjacent, st, m) ==
    IF adjacent = <<>> THEN st
    ELSE ProcessEach(Tail(adjacent), process_block(Head(adjacent), st, m), m)

\* the blocked positions in the order find_structures collects them
RECURSIVE BlocksFrom(_, _)
BlocksFrom(m, k) ==
    IF k >= m.width * m.height THEN <<>>
    ELSE LET pos == <<k % m.width, k \div m.width>>
         IN  (IF m.blocked[pos] THEN <<pos>> ELSE <<>>) \o BlocksFrom(m, k + 1)

\* the body of the loop of find_structures over blocks; acc is the
\* structures found and the seen set
FindStructureAt(block, acc, m) ==
    IF block \in acc.seen THEN acc
    ELSE LET adjacent == adjacent_blocks(block, m, acc.seen)
             seen1    == acc.seen \cup {block}
         IN  IF Len(adjacent) = 2 THEN acc
             ELSE LET st == IF Len(adjacent) = 1
                            THEN process_block(block,
                                     [structure |-> [blocks |-> <<block>>, typ |-> "Line"],
                                      seen      |-> seen1], m)
                            ELSE IF Len(adjacent) > 2
                            THEN ProcessEach(adjacent,
                                     [structure |-> [blocks |-> <<block>>,
                                                     typ    |-> "Complex"],
                                      seen      |-> seen1 \cup SeqToSet(adjacent)], m)
                            ELSE [structure |-> [blocks |-> <<block>>, typ |-> "Single"],
                                  seen      |-> seen1]
                  IN  [structures |-> Append(acc.structures, st.structure),
                       seen       |-> st.seen]

RECURSIVE FindStructuresOver(_, _, _)
FindStructuresOver(blocks, acc, m) ==
    IF blocks = <<>> THEN acc
    ELSE FindStructuresOver(Tail(blocks), FindStructureAt(Head(blocks), acc, m), m)

find_structures(m) ==
    FindStructuresOver(BlocksFrom(m, 0), [structures |-> <<>>, seen |-> {}], m).structures

---------------------------------------------------------------------------
(* make_map.rs: the parsers of the vault files.  A char is a string of    *)
(* one character; "EM" stands for the dash U+2014 (code 8212) and "UC780" *)
(* for U+C780.  An index of the source (from 0) is kept as it is written. *)

\* lines[row][col] of the source
At(lines, row, col) == lines[row + 1][col + 1]

\* variant: a trailing comma adds nothing
remove_commas_no_trailing(s) ==
    LET RECURSIVE Body(_)
        Body(index) ==
            IF index >= Len(s) THEN <<>>
            ELSE (IF s[index + 1] = ","
                  THEN (IF index + 1 < Len(s) /\ s[index + 2] = "," THEN <<" ">> ELSE <<>>)
                  ELSE <<s[index + 1]>>)
                 \o Body(index + 1)
    IN  (IF s[1] = "," THEN <<" ">> ELSE <<>>) \o Body(0)

\* remove_commas: a space for a leading comma, the while loop over the
\* characters (a comma followed by a comma gives a space, any other
\* character is copied), a space for a trailing comma
remove_commas(s) ==
    LET RECURSIVE Body(_)
        Body(index) ==
            IF index >= Len(s) THEN <<>>
            ELSE (IF s[index + 1] = ","
                  THEN (IF index + 1 < Len(s) /\ s[index + 2] = "," THEN <<" ">> ELSE <<>>)
                  ELSE <<s[index + 1]>>)
                 \o Body(index + 1)
    IN  (IF s[1] = "," THEN <<" ">> ELSE <<>>)
        \o Body(0)
        \o (IF s[Len(s)] = "," THEN <<" ">> ELSE <<>>)

\* s[0] of an empty line
RemoveCommasPanics(s) == s = <<>>

\* Tile::empty, Tile::rubble, Tile::water, Tile::wall_with, Tile::grass: the
\* constructor is kept as the kind of the tile
TileOf(kind) == [kind |-> kind, left_wall |-> "Empty", bottom_wall |-> "Empty"]

\* the tile a character stands for
TileKind(tile_chr) ==
    IF tile_chr = ";" THEN "rubble"
    ELSE IF tile_chr = "%" THEN "water"
    ELSE IF tile_chr = "#" THEN "wall"
    ELSE IF tile_chr = "\"" THEN "grass"
    ELSE "empty"

\* the entity a character puts on its tile (make_column, make_elf, make_gol,
\* make_stone, make_dagger), "none" for every other character
EntityOf(tile_chr) ==
    IF tile_chr = "I" THEN "column"
    ELSE IF tile_chr = "p" THEN "elf"
    ELSE IF tile_chr = "g" THEN "gol"
    ELSE IF tile_chr = "o" THEN "stone"
    ELSE IF tile_chr = "v" THEN "dagger"
    ELSE "none"

\* tile_from_ascii: the tile and the entity made for it
tile_from_ascii(tile_chr, left_wall, bottom_wall) ==
    [tile |-> [TileOf(TileKind(tile_chr)) EXCEPT
                 !.left_wall = IF left_wall \in {"|", "UC780", "EM"}
                               THEN "ShortWall" ELSE @,
                 !.bottom_wall = IF bottom_wall \in {"_", "EM", "|"}
                                 THEN "ShortWall" ELSE @],
     made |-> EntityOf(tile_chr)]

\* variant: every pair of columns is a tile
ParseWidthPairs(lines) == Len(lines[1]) \div 2

\* let width = (lines[0].len() - 1) / 2
ParseWidth(lines) == (Len(lines[1]) - 1) \div 2

\* let height = lines.len() / 2
ParseHeight(lines) == Len(lines) \div 2

\* lines[0] of no lines, or 0 - 1 on the usize length of an empty first line
\* (a panic with overflow checks, a width no vector can have without them)
ParseAsciiCharsPanics(lines) == IF lines = <<>> THEN TRUE ELSE lines[1] = <<>>

\* parse_ascii_chars: the vault's map, width x height tiles, and the
\* entities made on the way, row by row
parse_ascii_chars(lines) ==
    LET height == ParseHeight(lines)
        width  == ParseWidth(lines)
        Parsed(x, y) == tile_from_ascii(At(lines, y * 2, x * 2 + 1),
                                        At(lines, y * 2, x * 2),
                                        At(lines, y * 2 + 1, x * 2 + 1))
        RECURSIVE Made(_)
        Made(k) ==
            IF k >= width * height THEN <<>>
            ELSE LET x == k % width
                     y == k \div width
                 IN  (IF Parsed(x, y).made = "none" THEN <<>>
                      ELSE <<[kind |-> Parsed(x, y).made, pos |-> <<x, y>>]>>)
                     \o Made(k + 1)
    IN  [width    |-> width,
         height   |-> height,
         tiles    |-> [t \in (0 .. width - 1) \X (0 .. height - 1) |->
                          Parsed(t[1], t[2]).tile],
         entities |-> Made(0)]

---------------------------------------------------------------------------
(* AI Engine: the turn-plan of one entity, a function of the store only   *)

Visible(e, a, b) ==
    a \in Live(e) /\ b \in Live(e)
    /\ Distance(e.pos[a], e.pos[b]) <= FOV_RADIUS_MONSTER

InReach(e, a, b) == Distance(e.pos[a], e.pos[b]) = 1

\* variant: an Idle entity with the player in reach attacks at once
ai_take_turn_eager(key, e) ==
    LET player == FindPlayer(e)
        b      == IF Has(e.behavior, key) THEN e.behavior[key] ELSE Idle
        mypos  == e.pos[key]
    IN  IF b.b = "Idle"
        THEN IF Visible(e, key, player) /\ InReach(e, key, player)
             THEN StateChange(Attacking(player))
             ELSE IF Visible(e, key, player)
             THEN StateChange(Investigating(e.pos[player]))
             ELSE NoAction
        ELSE IF b.b = "Investigating"
        THEN IF Visible(e, key, player) /\ InReach(e, key, player)
             THEN StateChange(Attacking(player))
             ELSE IF mypos = b.pos THEN StateChange(Idle)
             ELSE Move(Signum(b.pos - mypos))
        ELSE IF ~ Visible(e, key, b.target)
             THEN StateChange(Investigating(IF b.target \in Live(e)
                                            THEN e.pos[b.target] ELSE mypos))
             ELSE Move(Signum(e.pos[b.target] - mypos))

ai_take_turn(key, e) ==
    LET player == FindPlayer(e)
        b      == IF Has(e.behavior, key) THEN e.behavior[key] ELSE Idle
        mypos  == e.pos[key]
    IN  IF b.b = "Idle"
        THEN IF Visible(e, key, player)
             THEN StateChange(Investigating(e.pos[player]))
             ELSE NoAction
        ELSE IF b.b = "Investigating"
        THEN IF Visible(e, key, player) /\ InReach(e, key, player)
             THEN StateChange(Attacking(player))
             ELSE IF mypos = b.pos THEN StateChange(Idle)
             ELSE Move(Signum(b.pos - mypos))
        ELSE IF ~ Visible(e, key, b.target)
             THEN StateChange(Investigating(IF b.target \in Live(e)
                                            THEN e.pos[b.target] ELSE mypos))
             ELSE Move(Signum(e.pos[b.target] - mypos))

---------------------------------------------------------------------------
(* step_logic, statement group by statement group *)

\* variant: the combatants taken in the order of their id values
AiIdsById(e) ==
    LET S == {key \in Live(e) : Has(e.ai, key) /\ e.alive[key] /\ Has(e.fighter, key)}
        RECURSIVE Sorted(_)
        Sorted(T) == IF T = {} THEN <<>>
                     ELSE LET m == CHOOSE x \in T : \A y \in T : x <= y
                          IN  <<m>> \o Sorted(T \ {m})
    IN  Sorted(S)

\* variant: the alive flag of the entity is not tested
AiIdsDead(e) ==
    SelectSeq(e.ids, LAMBDA key : Has(e.ai, key) /\ Has(e.fighter, key))

\* the combatant AI entities, in the order of entities.ids
AiIds(e) ==
    SelectSeq(e.ids, LAMBDA key : Has(e.ai, key) /\ e.alive[key] /\ Has(e.fighter, key))

\* variant: the blocking flag is left set
FinalizeDeathBlocking(e, key) ==
    IF Has(e.fighter, key) /\ e.fighter[key].hp <= 0
    THEN [e EXCEPT !.alive[key] = FALSE,
                   !.chr[key] = "%",
                   !.fighter = Remove(@, key)]
    ELSE e

\* inline death bookkeeping of the AI entity that just acted
FinalizeDeath(e, key) ==
    IF Has(e.fighter, key) /\ e.fighter[key].hp <= 0
    THEN [e EXCEPT !.alive[key] = FALSE,
                   !.blocks[key] = FALSE,
                   !.chr[key] = "%",
                   !.fighter = Remove(@, key)]
    ELSE e

\* the player lost all hp: mark the player, Playing becomes Lose
PlayerLostEntities(e, player_id) ==
    IF Has(e.fighter, player_id) /\ e.fighter[player_id].hp <= 0
    THEN [e EXCEPT !.alive[player_id] = FALSE, !.color[player_id] = "red"]
    ELSE e

PlayerLostState(e, player_id, state) ==
    IF Has(e.fighter, player_id) /\ e.fighter[player_id].hp <= 0 /\ state = "Playing"
    THEN "Lose"
    ELSE state

\* variant: a flagged entity is listed whatever its animations
RECURSIVE ToRemoveFlagged(_, _)
ToRemoveFlagged(e, ids) ==
    IF ids = <<>> THEN <<>>
    ELSE LET id == Head(ids)
             c  == IF Has(e.count_down, id) /\ e.count_down[id] = 0
                   THEN <<id>> ELSE <<>>
             n  == IF e.needs_removal[id] THEN <<id>> ELSE <<>>
         IN  c \o n \o ToRemoveFlagged(e, Tail(ids))

\* the removal list of the sweep, in the order of entities.ids
RECURSIVE ToRemove(_, _)
ToRemove(e, ids) ==
    IF ids = <<>> THEN <<>>
    ELSE LET id == Head(ids)
             c  == IF Has(e.count_down, id) /\ e.count_down[id] = 0
                   THEN <<id>> ELSE <<>>
             n  == IF e.needs_removal[id] /\ Len(e.animation[id]) = 0
                   THEN <<id>> ELSE <<>>
         IN  c \o n \o ToRemove(e, Tail(ids))

\* the count down of the sweep: every positive count loses one
CountDown(e) ==
    [e EXCEPT !.count_down =
        [id \in DOMAIN e.count_down |->
            IF id \in Live(e) /\ e.count_down[id] # 0
            THEN e.count_down[id] - 1 ELSE e.count_down[id]]]

Sweep(e) == RemoveAll(CountDown(e), ToRemove(e, e.ids))

\* variant: the field of view is computed every turn
ComputeFovAlways(f, previous_player_position, player_pos) ==
    [pos |-> player_pos, radius |-> FOV_RADIUS_PLAYER, count |-> 1]

\* Map::compute_fov is called only when the player's position changed
ComputeFov(f, previous_player_position, player_pos) ==
    IF previous_player_position # player_pos
    THEN [pos |-> player_pos, radius |-> FOV_RADIUS_PLAYER, count |-> 1]
    ELSE [f EXCEPT !.count = 0]

\* variant: one of the two conditions is enough
win_condition_any(e) ==
    LET player_id == FindPlayer(e)
    IN  \/ \E i \in 1 .. Len(e.inventory[player_id]) :
              LET item_id == e.inventory[player_id][i]
              IN  Has(e.item, item_id) /\ e.item[item_id] = "Goal"
        \/ e.pos[player_id] = ExitPos

\* win_condition_met: a Goal item in the player's inventory, player on the Exit tile
win_condition_met(e) ==
    LET player_id == FindPlayer(e)
    IN  /\ \E i \in 1 .. Len(e.inventory[player_id]) :
              LET item_id == e.inventory[player_id][i]
              IN  Has(e.item, item_id) /\ e.item[item_id] = "Goal"
        /\ e.pos[player_id] = ExitPos

---------------------------------------------------------------------------
(* Selection (game.rs): which position a selection picks and which action *)
(* it makes of that position                                              *)

WithinReach(n) == [t |-> "WithinReach", n |-> n]

WithinRadius(n) == [t |-> "WithinRadius", n |-> n]

\* variant: the arms are taken by the kind of the selection
action_from_pos_by_kind(self, pos, e) ==
    IF self = "Throw" THEN ThrowItem(pos, FindPlayer(e)) ELSE UseItem(pos)

\* SelectionAction::action_from_pos.  The arms of its match are written
\* `Throw =>` and `Hammer =>` without the enum's path, and no variant is
\* imported: `Throw` is an identifier pattern that binds every value, so
\* the first arm is taken for every self and the second is never reached.
action_from_pos(self, pos, e) == ThrowItem(pos, FindPlayer(e))

\* data.find_player().unwrap() in the arm that is taken
ActionFromPosPanics(e) == FindPlayer(e) = 0

\* utils::move_towards: radius steps from pos in the direction of selected
move_towards(pos, selected, radius) == pos + Signum(selected - pos) * radius

\* Reach::closest_to: of the positions at the reach's distance from pos, the
\* one nearest to selected
closest_to(reach, pos, selected) ==
    IF Distance(pos - reach, selected) <= Distance(pos + reach, selected)
    THEN pos - reach ELSE pos + reach

\* Selection::selected_pos
selected_pos(sel, pos, selected) ==
    IF sel.typ.t = "WithinReach"
    THEN closest_to(sel.typ.n, pos, selected)
    ELSE IF Distance(selected, pos) <= sel.typ.n
         THEN selected
         ELSE move_towards(pos, selected, sel.typ.n)

\* Selection::select: Some(action), written as a one-element sequence
select(sel, pos, selected, e) ==
    <<action_from_pos(sel.action, selected_pos(sel, pos, selected), e)>>

---------------------------------------------------------------------------
(* Initial states: the player and its stone (Game::new), two monsters and *)
(* a spike trap placed by the map collaborator, in a game under way.      *)

Layouts ==
    { [player |-> 2, gol |-> 3, elf |-> 4, spikes |-> 1, spikes2 |-> 0, key |-> FALSE],
      [player |-> 1, gol |-> 3, elf |-> 4, spikes |-> 2, spikes2 |-> 2, key |-> FALSE],
      [player |-> 0, gol |-> 4, elf |-> 3, spikes |-> 1, spikes2 |-> 1, key |-> FALSE],
      [player |-> ExitPos - 1, gol |-> 0, elf |-> 1, spikes |-> 2, spikes2 |-> ExitPos,
       key |-> TRUE],
      [player |-> ExitPos - 1, gol |-> 0, elf |-> 1, spikes |-> 2, spikes2 |-> 2,
       key |-> FALSE] }

IdOrders == { <<1, 5, 6, 2, 3, 4, 7>>, <<1, 5, 6, 3, 7, 4, 2>> }

MakeEntities(order, l, php, ghp, beh) ==
    [ids           |-> order,
     pos           |-> (1 :> l.player @@ 2 :> l.gol @@ 3 :> l.elf @@ 4 :> l.spikes @@ 5 :> -1
                        @@ 6 :> (IF l.key THEN -1 ELSE 0) @@ 7 :> l.spikes2),
     name          |-> (1 :> "player" @@ 2 :> "gol" @@ 3 :> "elf" @@ 4 :> "spikes" @@ 5 :> "stone"
                        @@ 6 :> "key" @@ 7 :> "spikes"),
     chr           |-> (1 :> "@" @@ 2 :> "g" @@ 3 :> "e" @@ 4 :> "^" @@ 5 :> "o" @@ 6 :> "k"
                        @@ 7 :> "^"),
     color         |-> (1 :> "white" @@ 2 :> "orange" @@ 3 :> "orange" @@ 4 :> "white" @@ 5 :> "grey"
                        @@ 6 :> "yellow" @@ 7 :> "white"),
     blocks        |-> (1 :> TRUE @@ 2 :> TRUE @@ 3 :> TRUE @@ 4 :> FALSE @@ 5 :> FALSE
                        @@ 6 :> FALSE @@ 7 :> FALSE),
     alive         |-> (1 :> TRUE @@ 2 :> TRUE @@ 3 :> TRUE @@ 4 :> FALSE @@ 5 :> FALSE
                        @@ 6 :> FALSE @@ 7 :> FALSE),
     fighter       |-> (1 :> [max_hp |-> 3, hp |-> php, defense |-> 0, power |-> 2]
                        @@ 2 :> [max_hp |-> 2, hp |-> ghp, defense |-> 1, power |-> 2]
                        @@ 3 :> [max_hp |-> 2, hp |-> 2, defense |-> 0, power |-> 2]),
     ai            |-> (2 :> "Basic" @@ 3 :> "Basic"),
     behavior      |-> (2 :> beh @@ 3 :> beh),
     action        |-> (1 :> NoAction),
     item          |-> (5 :> "Stone" @@ 6 :> "Goal"),
     inventory     |-> (1 :> (IF l.key THEN <<5, 6>> ELSE <<5>>)),
     count_down    |-> <<>>,
     needs_removal |-> [id \in 1 .. 7 |-> FALSE],
     animation     |-> (1 :> <<"idle">> @@ 2 :> <<"idle">> @@ 3 :> <<"idle">> @@ 4 :> <<>>
                        @@ 5 :> <<>> @@ 6 :> <<>> @@ 7 :> <<>>)]

\* no Selection and no parser is being exercised
CallsDefault ==
    /\ selection = [typ |-> [t |-> "WithinRadius", n |-> 0], action |-> "Throw",
                    pos |-> 0, selected |-> 0, result |-> <<>>]
    /\ text = [lines |-> <<>>, result |-> <<>>]

\* no AwarenessMap or Map function is being exercised
GridsDefault ==
    /\ awareness = AwarenessMapNew(GridWidth, GridHeight)
    /\ map = MapFromDims(GridWidth, GridHeight)
    /\ structures = <<>>
    /\ CallsDefault

NoLocals == [player_id |-> 0, previous_player_position |-> 0, ai_id |-> <<>>, idx |-> 0]

\* the stores a game under way starts from
Stores ==
    UNION { { MakeEntities(order, l, php, ghp, beh) :
                beh \in {Idle, Investigating(l.player), Attacking(PlayerId)} } :
            order \in IdOrders, l \in Layouts, php \in {1, 3}, ghp \in {1, 2} }

\* a store whose level was loaded without a player entity (step_win clears
\* the store and reads the level from the map file)
WithoutPlayer(e) == EntitiesRemove(e, PlayerId)

InitGame(e) ==
    /\ entities = e
    /\ msg_log = MsgLogNew
    /\ settings = [state |-> "Playing", turn_count |-> 0, exiting |-> FALSE]
    /\ input_action = [type |-> "None"]
    /\ running = TRUE
    /\ game_result = "Continue"
    /\ pc = "step_game"
    /\ caller = "none"
    /\ locals = NoLocals
    /\ fov = [pos |-> IF Has(e.pos, PlayerId) THEN e.pos[PlayerId] ELSE 0,
              radius |-> FOV_RADIUS_PLAYER, count |-> 0]
    /\ frame = 0
    /\ events = <<>>
    /\ momentum = MomentumDefault
    /\ objects = ObjectsDefault
    /\ GridsDefault

Init == \E e \in Stores : InitGame(e)

\* Game::step_game called by any user of the engine, also on a Game whose
\* store has no player
InitApi == \E e \in Stores \cup {WithoutPlayer(x) : x \in Stores} : InitGame(e)

---------------------------------------------------------------------------
(* Input: the events polled by the main loop and the input handlers       *)

InputNone == [type |-> "None"]

KeyInputs ==
    { InputNone, [type |-> "Pass"], [type |-> "Exit"], [type |-> "Esc"] }
    \cup { [type |-> "Move", dx |-> d] : d \in {-1, 1} }
    \cup { [type |-> "Mode", state |-> m] :
             m \in {"Inventory", "Throwing", "Interact", "Selection"} }
    \cup { [type |-> "MapClick", pos |-> p] : p \in {0, ExitPos} }

\* a key event replaces game.input_action, no event leaves it as it is
Polled == KeyInputs \cup {input_action}

\* actions::handle_input (Playing)
HandleInput(input, st) ==
    IF input.type = "Move" THEN [action |-> Move(input.dx), settings |-> st]
    ELSE IF input.type = "Pass" THEN [action |-> Pass, settings |-> st]
    ELSE IF input.type = "Exit"
         THEN [action |-> NoAction, settings |-> [st EXCEPT !.exiting = TRUE]]
    ELSE IF input.type = "Mode"
         THEN [action |-> NoAction, settings |-> [st EXCEPT !.state = input.state]]
    ELSE [action |-> NoAction, settings |-> st]

\* the action a map click selects in the Throwing, Interact and Selection states
ModalAction(mode, input, e) ==
    LET player_id == FindPlayer(e)
    IN  IF mode = "Interact"
        THEN Move(Signum(input.pos - e.pos[player_id]))
        ELSE IF mode = "Throwing"
        THEN IF Len(e.inventory[player_id]) > 0
             THEN ThrowItem(input.pos, e.inventory[player_id][1])
             ELSE NoAction
        ELSE ThrowItem(input.pos, player_id)

\* actions::handle_input_throwing / _interact / _selection; leave tells
\* whether the handler goes back to Playing when it returns an action
HandleInputModal(mode, input, st, e, leave) ==
    IF input.type = "MapClick"
    THEN LET a == ModalAction(mode, input, e)
         IN  [action |-> a,
              settings |-> IF a # NoAction /\ leave
                           THEN [st EXCEPT !.state = "Playing"] ELSE st]
    ELSE IF input.type = "Esc"
         THEN [action |-> NoAction, settings |-> [st EXCEPT !.state = "Playing"]]
    ELSE IF input.type = "Exit"
         THEN [action |-> NoAction, settings |-> [st EXCEPT !.exiting = TRUE]]
    ELSE IF input.type = "Mode" /\ input.state = "Inventory"
         THEN [action |-> NoAction, settings |-> [st EXCEPT !.state = "Inventory"]]
    ELSE [action |-> NoAction, settings |-> st]

\* actions::handle_input_inventory
HandleInputInventory(input, st) ==
    IF input.type = "Esc" THEN [st EXCEPT !.state = "Playing"]
    ELSE IF input.type = "Exit" THEN [st EXCEPT !.exiting = TRUE]
    ELSE st

---------------------------------------------------------------------------
(* History of one turn: what the scheduler and the resolver did, in order *)

\* a message was logged; n counts the messages logged this turn, pending
\* is the number of unresolved messages right before
EvLog(msg, by, n, pending) ==
    [ev |-> "log", msg |-> msg, by |-> by, n |-> n, pending |-> pending]

\* the n-th resolution of this turn
EvResolve(msg, n) == [ev |-> "resolve", msg |-> msg, n |-> n]

\* the AI engine was asked for the turn-plan of id
EvAiTakeTurn(id, pending) == [ev |-> "ai_take_turn", id |-> id, pending |-> pending]

\* the AI entities were collected
EvCollect(player_alive, combatants) ==
    [ev |-> "collect", player_alive |-> player_alive, combatants |-> combatants]

\* the Action of AI entity id is resolved; dead tells whether its hp is <= 0
EvAiDone(id, dead) == [ev |-> "ai_done", id |-> id, dead |-> dead]

\* the sweep ran: the store right before it and the removal list it built
EvSweep(before, to_remove) == [ev |-> "sweep", before |-> before, to_remove |-> to_remove]

\* the display was handed msg
EvDisplay(msg) == [ev |-> "display", msg |-> msg]

EventsOf(kind) == SelectSeq(events, LAMBDA x : x.ev = kind)

Logged == Len(EventsOf("log"))

Resolved == Len(EventsOf("resolve"))

---------------------------------------------------------------------------
(* Main loop and Game::step_game *)

\* main loop, right after step_game returned
Running(result, st) ==
    IF st.state = "Win" THEN running
    ELSE IF result = "Stop" \/ st.exiting THEN FALSE
    ELSE running

\* step_game returns without running a turn
Return(result, st, input) ==
    /\ settings' = st
    /\ input_action' = input
    /\ game_result' = result
    /\ running' = Running(result, st)
    /\ pc' = "display"
    /\ events' = <<>>
    /\ UNCHANGED <<entities, msg_log, caller, locals, fov, frame, value_vars>>

\* a panic (unwrap of None, index of a missing key): nothing more is executed
Panic(st, input) ==
    /\ pc' = "panic"
    /\ settings' = st
    /\ input_action' = input
    /\ UNCHANGED <<entities, msg_log, running, game_result, caller, locals, fov, frame,
                   events, value_vars>>

\* variant: without a player the first live id is taken
StepLogicPlayerGuess(e) ==
    IF FindPlayer(e) # 0 \/ e.ids = <<>> THEN FindPlayer(e) ELSE Head(e.ids)

\* data.find_player().unwrap() of step_logic; 0 stands for the panic of unwrap
StepLogicPlayer(e) == FindPlayer(e)

\* step_logic, first statements: record the position, log the player's Action
BeginStepLogic(player_action, st, who, input) ==
    LET player_id == StepLogicPlayer(entities)
    IN  IF player_id = 0 THEN Panic(st, input) ELSE
        /\ locals' = [player_id |-> player_id,
                      previous_player_position |-> entities.pos[player_id],
                      ai_id |-> <<>>, idx |-> 0]
        /\ entities' = [entities EXCEPT !.action = Insert(@, player_id, player_action)]
        /\ msg_log' = Log(msg_log, MsgAction(player_id, player_action))
        /\ events' = <<EvLog(MsgAction(player_id, player_action), "scheduler", 1,
                             Len(msg_log.messages))>>
        /\ settings' = st
        /\ input_action' = input
        /\ caller' = who
        /\ pc' = "resolve_player"
        /\ UNCHANGED <<running, game_result, fov, frame,
                   value_vars>>

StepPlaying ==
    /\ pc = "step_game" /\ settings.state = "Playing"
    /\ \E input \in Polled :
         LET h == HandleInput(input, settings)
         IN  IF h.action # NoAction
             THEN BeginStepLogic(h.action, h.settings, "step_playing", input)
             ELSE IF h.settings.exiting
                  THEN Return("Stop", h.settings, input)
                  ELSE Return("Continue", h.settings, InputNone)

StepModal(mode, who) ==
    /\ pc = "step_game" /\ settings.state = mode
    /\ \E input \in Polled, leave \in BOOLEAN :
         IF input.type = "MapClick" /\ FindPlayer(entities) = 0
         THEN Panic(settings, InputNone) ELSE
         LET h == HandleInputModal(mode, input, settings, entities, leave)
         IN  IF h.action # NoAction
             THEN BeginStepLogic(h.action, h.settings, who, InputNone)
             ELSE IF h.settings.exiting
                  THEN Return("Stop", h.settings, InputNone)
                  ELSE Return("Continue", h.settings, InputNone)

StepThrowing == StepModal("Throwing", "step_throwing")

StepInteract == StepModal("Interact", "step_interact")

StepSelection == StepModal("Selection", "step_selection")

StepInventory ==
    /\ pc = "step_game" /\ settings.state = "Inventory"
    /\ \E input \in Polled :
         LET st == HandleInputInventory(input, settings)
         IN  IF st.exiting
             THEN Return("Stop", st, InputNone)
             ELSE Return("Continue", st, InputNone)

\* variant: any input other than Exit starts the game again
StepLoseRetry ==
    /\ pc = "step_game" /\ settings.state = "Lose"
    /\ \E input \in Polled :
         IF input.type = "Exit"
         THEN Return("Stop", settings, input)
         ELSE Return("Continue", [settings EXCEPT !.state = "Playing"], input)

StepLose ==
    /\ pc = "step_game" /\ settings.state = "Lose"
    /\ \E input \in Polled :
         IF input.type = "Exit"
         THEN Return("Stop", settings, input)
         ELSE Return("Continue", settings, input)

\* Entities::clear followed by the load of the next level
EntitiesNew ==
    [ids |-> <<>>, pos |-> <<>>, name |-> <<>>, chr |-> <<>>, color |-> <<>>,
     blocks |-> <<>>, alive |-> <<>>, fighter |-> <<>>, ai |-> <<>>,
     behavior |-> <<>>, action |-> <<>>, item |-> <<>>, inventory |-> <<>>,
     count_down |-> <<>>, needs_removal |-> <<>>, animation |-> <<>>]

StepWin ==
    /\ pc = "step_game" /\ settings.state = "Win"
    /\ \E input \in Polled :
         IF input.type = "Exit"
         THEN Return("Stop", settings, input)
         ELSE /\ msg_log' = Log(msg_log, MsgChangeLevel)
              /\ entities' = EntitiesNew
              /\ settings' = [settings EXCEPT !.state = "Playing"]
              /\ input_action' = input
              /\ game_result' = "Stop"
              /\ running' = Running("Stop", settings')
              /\ pc' = "display"
              /\ events' = <<>>
              /\ UNCHANGED <<caller, locals, fov, frame, value_vars>>

---------------------------------------------------------------------------
(* step_logic after the player's Action is logged *)

\* the events of a handler's messages, logged after the n-th resolution
HandlerLogs(out, n, pending) ==
    [i \in 1 .. Len(out) |-> EvLog(out[i], "handler", n + i, pending + i - 1)]

\* resolve_messages, one iteration: the oldest message goes to its handler
\* and to turn_messages, the handler's messages go to the tail
ResolveMessage ==
    /\ pc \in {"resolve_player", "resolve_ai"}
    /\ msg_log.messages # <<>>
    /\ LET ml  == Pop(msg_log)
           msg == Popped(ml)
           r   == Dispatch(entities, msg)
       IN  /\ entities' = r.e
           /\ msg_log' = LogAll(ml, r.out)
           /\ events' = Append(events, EvResolve(msg, Resolved + 1))
                          \o HandlerLogs(r.out, Logged, Len(msg_log.messages) - 1)
    /\ UNCHANGED <<settings, input_action, running, game_result, pc, caller, locals,
                   fov, frame,
                   value_vars>>

\* resolve_messages called after the player's Action returns with nothing pending
PlayerMessagesResolvedEarly == TRUE

PlayerMessagesResolved == msg_log.messages = <<>>

\* the player's messages are resolved: collect the AI entities if the player lives
CollectAi ==
    /\ pc = "resolve_player"
    /\ PlayerMessagesResolved
    /\ LET player_alive == entities.alive[locals.player_id]
           ai_id == IF player_alive THEN AiIds(entities) ELSE <<>>
       IN  /\ locals' = [locals EXCEPT !.ai_id = ai_id, !.idx = 1]
           /\ events' = Append(events,
                  EvCollect(player_alive,
                            {k \in Live(entities) :
                                /\ Has(entities.ai, k)
                                /\ entities.alive[k]
                                /\ Has(entities.fighter, k)}))
           /\ pc' = IF ai_id = <<>> THEN "end_turn" ELSE "ai_take_turn"
    /\ UNCHANGED <<entities, msg_log, settings, input_action, running, game_result,
                   caller, fov, frame,
                   value_vars>>

\* first loop over ai_id: the turn-plan of one AI entity is stored as its action
AiTakeTurn ==
    /\ pc = "ai_take_turn"
    /\ LET key == locals.ai_id[locals.idx]
       IN  /\ entities' = [entities EXCEPT
                             !.action = Insert(@, key, ai_take_turn(key, entities))]
           /\ events' = Append(events, EvAiTakeTurn(key, Len(msg_log.messages)))
    /\ IF locals.idx < Len(locals.ai_id)
       THEN /\ locals' = [locals EXCEPT !.idx = @ + 1]
            /\ pc' = "ai_take_turn"
       ELSE /\ locals' = [locals EXCEPT !.idx = 1]
            /\ pc' = "ai_action"
    /\ UNCHANGED <<msg_log, settings, input_action, running, game_result, caller,
                   fov, frame,
                   value_vars>>

\* position of the second loop after the entity at idx is done
NextAi(l) ==
    IF l.idx < Len(l.ai_id) THEN "ai_action" ELSE "end_turn"

\* variant: the second loop tests again that the entity is a combatant
StoredActionOfCombatant(e, key) ==
    Has(e.action, key) /\ e.alive[key] /\ Has(e.fighter, key)

\* if let Some(action) = data.entities.action.get(&key): the only test of
\* the second loop
StoredAction(e, key) == Has(e.action, key)

\* second loop over ai_id: log the stored Action of one AI entity
AiAction ==
    /\ pc = "ai_action"
    /\ LET key == locals.ai_id[locals.idx]
       IN  IF StoredAction(entities, key)
           THEN /\ msg_log' = Log(msg_log, MsgAction(key, entities.action[key]))
                /\ events' = Append(events,
                       EvLog(MsgAction(key, entities.action[key]), "scheduler",
                             Logged + 1, Len(msg_log.messages)))
                /\ pc' = "resolve_ai"
                /\ UNCHANGED locals
           ELSE /\ pc' = NextAi(locals)
                /\ locals' = [locals EXCEPT !.idx = @ + 1]
                /\ UNCHANGED <<msg_log, events>>
    /\ UNCHANGED <<entities, settings, input_action, running, game_result, caller,
                   fov, frame,
                   value_vars>>

\* resolve_messages called after an AI entity's Action returns with nothing pending
AiMessagesResolvedEarly == TRUE

AiMessagesResolved == msg_log.messages = <<>>

\* the AI entity's messages are resolved: check whether its fighter is dead
AiFinalize ==
    /\ pc = "resolve_ai"
    /\ AiMessagesResolved
    /\ LET key == locals.ai_id[locals.idx]
       IN  /\ entities' = FinalizeDeath(entities, key)
           /\ events' = Append(events,
                  EvAiDone(key, Has(entities.fighter, key)
                                /\ entities.fighter[key].hp <= 0))
    /\ pc' = NextAi(locals)
    /\ locals' = [locals EXCEPT !.idx = @ + 1]
    /\ UNCHANGED <<msg_log, settings, input_action, running, game_result, caller,
                   fov, frame,
                   value_vars>>

\* the rest of step_logic: player check, sweep, field of view; reading the
\* position of a player the sweep removed panics
EndTurn ==
    /\ pc = "end_turn"
    /\ LET player_id == locals.player_id
           e1 == PlayerLostEntities(entities, player_id)
           e2 == Sweep(e1)
       IN  /\ entities' = e2
           /\ settings' = [settings EXCEPT
                             !.state = PlayerLostState(entities, player_id, @)]
           /\ events' = Append(events, EvSweep(e1, ToRemove(e1, e1.ids)))
           /\ IF player_id \in Live(e2)
              THEN /\ fov' = ComputeFov(fov, locals.previous_player_position,
                                        e2.pos[player_id])
                   /\ pc' = "return"
              ELSE /\ fov' = fov
                   /\ pc' = "panic"
    /\ UNCHANGED <<msg_log, input_action, running, game_result, caller, locals,
                   frame, value_vars>>

\* step_playing after step_logic returned: win check and turn count
AfterTurn(who, st, e) ==
    IF who = "step_playing"
    THEN [st EXCEPT !.state = IF win_condition_met(e) THEN "Win" ELSE @,
                    !.turn_count = @ + 1]
    ELSE st

\* the statements of the calling step_* function that follow step_logic,
\* and the main loop's test of the result
StepReturn ==
    /\ pc = "return"
    /\ IF caller = "step_playing" /\ FindPlayer(entities) = 0
       THEN Panic(settings, input_action)
       ELSE LET st == AfterTurn(caller, settings, entities)
                result == IF st.exiting THEN "Stop" ELSE "Continue"
            IN  /\ settings' = st
                /\ game_result' = result
                /\ running' = Running(result, st)
                /\ input_action' = IF caller = "step_playing" /\ st.exiting
                                   THEN input_action ELSE InputNone
                /\ pc' = "display"
                /\ UNCHANGED <<entities, msg_log, caller, locals, fov, frame, events,
                               value_vars>>

\* the display's handling of a Killed message: the victim's animations are
\* dropped, a gol gets its death animation
ProcessKilled(e, victim) ==
    IF victim \in Live(e) /\ e.name[victim] # "player"
    THEN [e EXCEPT !.animation[victim] =
                       IF e.name[victim] = "gol" THEN <<"die">> ELSE <<>>]
    ELSE e

\* DisplayState::process_message: what one message does to the entities
process_message(e, msg) ==
    IF msg.kind = "Killed" THEN ProcessKilled(e, msg.target) ELSE e

\* variant: the pass starts at the newest message
RECURSIVE ProcessMessagesNewestFirst(_, _, _)
ProcessMessagesNewestFirst(e, msgs, seen) ==
    IF msgs = <<>> THEN [e |-> e, seen |-> seen]
    ELSE ProcessMessagesNewestFirst(process_message(e, msgs[Len(msgs)]),
                                    SubSeq(msgs, 1, Len(msgs) - 1),
                                    Append(seen, msgs[Len(msgs)]))

\* the display's pass over turn_messages: the entities after it and the
\* messages handed to process_message, in the order of the calls
RECURSIVE ProcessMessages(_, _, _)
ProcessMessages(e, msgs, seen) ==
    IF msgs = <<>> THEN [e |-> e, seen |-> seen]
    ELSE ProcessMessages(process_message(e, Head(msgs)), Tail(msgs),
                         Append(seen, Head(msgs)))

\* animation playback: a death animation that has played to its end leaves
\* the queue of its entity
PlayAnimations(e, finished) ==
    IF finished
    THEN [e EXCEPT !.animation =
            [id \in DOMAIN e.animation |->
                IF e.animation[id] # <<>> /\ Head(e.animation[id]) = "die"
                THEN Tail(e.animation[id]) ELSE e.animation[id]]]
    ELSE e

\* main loop after step_game: the display processes turn_messages and plays
\* the animations, then the log is cleared and the next iteration starts
Display ==
    /\ pc = "display"
    /\ LET passed == ProcessMessages(entities, msg_log.turn_messages, <<>>)
       IN  /\ \E finished \in BOOLEAN : entities' = PlayAnimations(passed.e, finished)
           /\ events' = [i \in 1 .. Len(passed.seen) |-> EvDisplay(passed.seen[i])]
    /\ msg_log' = Clear(msg_log)
    /\ locals' = NoLocals
    /\ caller' = "none"
    /\ frame' = frame + 1
    /\ pc' = IF running /\ frame + 1 < MaxFrames THEN "step_game" ELSE "exit"
    /\ UNCHANGED <<settings, input_action, running, game_result, fov,
                   value_vars>>

Next ==
    \/ StepPlaying
    \/ StepThrowing
    \/ StepInteract
    \/ StepSelection
    \/ StepInventory
    \/ StepLose
    \/ StepWin
    \/ ResolveMessage
    \/ CollectAi
    \/ AiTakeTurn
    \/ AiAction
    \/ AiFinalize
    \/ EndTurn
    \/ StepReturn
    \/ Display

Spec == Init /\ [][Next]_vars

SpecApi == InitApi /\ [][Next]_vars

---------------------------------------------------------------------------
(* Momentum::moved and the combat functions of Object, called with every  *)
(* kind of argument on values of their own: no game is running.           *)

\* the game's variables while only values of types.rs are exercised
NoGame(at) ==
    /\ entities = EntitiesNew
    /\ msg_log = MsgLogNew
    /\ settings = [state |-> "Playing", turn_count |-> 0, exiting |-> FALSE]
    /\ input_action = InputNone
    /\ running = FALSE
    /\ game_result = "Continue"
    /\ pc = at
    /\ caller = "none"
    /\ locals = NoLocals
    /\ fov = [pos |-> 0, radius |-> FOV_RADIUS_PLAYER, count |-> 0]
    /\ frame = 0
    /\ events = <<>>

\* arguments of every kind: extreme, negative, zero, positive
Args == {MinInt, -3, -1, 0, 1, 3, MaxInt}

\* directions of every kind for moved
Deltas == {MinInt, -1, 0, 1, MaxInt}

\* the caps a Momentum is made with
MomentumCaps == {0, 1, 2, MaxStat, MaxInt}

InitMomentum ==
    /\ NoGame("moved")
    /\ \E max \in MomentumCaps :
          \E mx, my \in (-max) .. max :
             momentum = [mx |-> mx, my |-> my, took_half_turn |-> FALSE, max |-> max]
    /\ objects = ObjectsDefault
    /\ GridsDefault

\* a call of moved(dx, dy): the arguments and the Momentum before the call
EvMoved(dx, dy, before) == [ev |-> "moved", dx |-> dx, dy |-> dy, before |-> before]

\* moved(dx, dy) returns (an overflowing sum has wrapped)
MomentumMoved ==
    /\ pc = "moved"
    /\ \E dx, dy \in Deltas :
         /\ momentum' = moved(momentum, dx, dy)
         /\ events' = <<EvMoved(dx, dy, momentum)>>
    /\ UNCHANGED <<game_vars, objects, grid_vars, call_vars>>

\* moved(dx, dy) panics on an overflowing sum (build with overflow checks)
MomentumPanic ==
    /\ pc = "moved"
    /\ \E dx, dy \in Deltas : MovedOverflows(momentum, dx, dy)
    /\ pc' = "panic"
    /\ UNCHANGED <<entities, msg_log, settings, input_action, running, game_result,
                   caller, locals, fov, frame, events, value_vars>>

NextMomentum == MomentumMoved \/ MomentumPanic

SpecMomentum == InitMomentum /\ [][NextMomentum]_vars

\* the statistics Fighters are made with
StatValues == {0, 2, 5, MaxStat}

InitObject ==
    /\ NoGame("object")
    /\ momentum = MomentumDefault
    /\ GridsDefault
    /\ \E self \in {Object(TRUE, NoFighter)}
                   \cup {Object(TRUE, SomeFighter(3, 3, 0, p)) : p \in StatValues},
          target \in {Object(TRUE, NoFighter)}
                     \cup {Object(hp > 0, SomeFighter(max_hp, hp, d, 0)) :
                             max_hp \in {3, MaxStat}, hp \in {-1, 1, 3}, d \in StatValues} :
          objects = [self |-> self, target |-> target]

\* a call on the target: the function, its argument, both Objects before it
EvCall(f, arg, before) == [ev |-> f, arg |-> arg, before |-> before]

\* self.attack(target) returns
ObjectAttack ==
    /\ pc = "object"
    /\ objects' = [objects EXCEPT !.target = attack(objects.self, objects.target)]
    /\ events' = <<EvCall("attack", 0, objects)>>
    /\ UNCHANGED <<game_vars, momentum, grid_vars, call_vars>>

\* target.take_damage(damage) returns
ObjectTakeDamage ==
    /\ pc = "object"
    /\ \E damage \in Args :
         /\ objects' = [objects EXCEPT !.target = take_damage(objects.target, damage)]
         /\ events' = <<EvCall("take_damage", damage, objects)>>
    /\ UNCHANGED <<game_vars, momentum, grid_vars, call_vars>>

\* target.heal(amount) returns
ObjectHeal ==
    /\ pc = "object"
    /\ \E amount \in Args :
         /\ objects' = [objects EXCEPT !.target = heal(objects.target, amount)]
         /\ events' = <<EvCall("heal", amount, objects)>>
    /\ UNCHANGED <<game_vars, momentum, grid_vars, call_vars>>

\* one of the three calls panics on an overflow (build with overflow checks)
ObjectPanic ==
    /\ pc = "object"
    /\ \/ AttackOverflows(objects.self, objects.target)
       \/ \E damage \in Args : TakeDamageOverflows(objects.target, damage)
       \/ \E amount \in Args : HealOverflows(objects.target, amount)
    /\ pc' = "panic"
    /\ UNCHANGED <<entities, msg_log, settings, input_action, running, game_result,
                   caller, locals, fov, frame, events, value_vars>>

NextObject == ObjectAttack \/ ObjectTakeDamage \/ ObjectHeal \/ ObjectPanic

SpecObject == InitObject /\ [][NextObject]_vars

---------------------------------------------------------------------------
(* The message handling of run in lib.rs: after step_game the loop goes   *)
(* over the messages of the log, lays down sounds and sets animations,    *)
(* and clears the log.  step_game is represented by what it leaves behind: *)
(* the messages in the log.                                                *)

MsgYell(p) == [kind |-> "Yell", pos |-> p]

\* the positions messages are made with: both ends of the map and a tile inside
RunPositions == {0, 1, MapWidth - 1}

\* the messages step_game may leave in the log
RunMsgs ==
    {MsgStoneThrow(PlayerId, StoneId, 0, end) : end \in RunPositions}
    \cup {MsgYell(p) : p \in RunPositions}
    \cup {MsgMoved(PlayerId, m, 1) : m \in {"Pass", "Move"}}
    \cup {MsgKilled(PlayerId, GolId, 1), MsgAttack(PlayerId, GolId, 1)}

\* the logs of one frame: empty, one message, or a throw followed by a yell
RunLogs ==
    {<<>>} \cup {<<m>> : m \in RunMsgs}
    \cup {<<MsgStoneThrow(PlayerId, StoneId, 0, end), MsgYell(p)>> :
             end \in {0, MapWidth - 1}, p \in {0, MapWidth - 1}}

\* Msg::StoneThrow: sounds around end, the stone's three animations
RunStoneThrow(e, msg) ==
    LET e1 == InsertSounds(e, aoe_fill(msg.end, SOUND_RADIUS_STONE))
    IN  [e1 EXCEPT !.animation[msg.item] = <<"between", "sound", "loop">>]

\* Msg::Moved: a player's move that is not a Pass restarts the idle
\* animation and lays down the sound of a step around the new position
\* (the player's move_mode is Walk: a Pass changes nothing)
RunMoved(e, msg) ==
    IF msg.id = FindPlayer(e) /\ msg.movement # "Pass"
    THEN InsertSounds([e EXCEPT !.animation[msg.id] = <<"idle">>],
                      aoe_fill(msg.pos, SOUND_RADIUS_WALK))
    ELSE e

\* Msg::Yell(_pos): sounds around the position of the player
RunYell(e, msg) ==
    InsertSounds(e, aoe_fill(e.pos[FindPlayer(e)], PLAYER_YELL_RADIUS))

\* Msg::Attack: the player's attack animation, then idle
RunAttack(e, msg) ==
    IF e.name[msg.attacker] = "player"
    THEN [e EXCEPT !.animation[msg.attacker] = <<"attack", "idle">>]
    ELSE e

\* the match on one message of the log
RunMatch(e, msg) ==
    IF msg.kind = "StoneThrow" THEN RunStoneThrow(e, msg)
    ELSE IF msg.kind = "Moved" THEN RunMoved(e, msg)
    ELSE IF msg.kind = "Yell" THEN RunYell(e, msg)
    ELSE IF msg.kind = "Killed" THEN ProcessKilled(e, msg.target)
    ELSE IF msg.kind = "Attack" THEN RunAttack(e, msg)
    ELSE e

\* the loop handled msg: the store before it and the positions of the
\* entities it inserted, in the order of their insertion
EvHandled(msg, before, after) ==
    [ev      |-> "handled",
     msg     |-> msg,
     before  |-> before,
     created |-> [i \in 1 .. (Len(after.ids) - Len(before.ids)) |->
                     after.pos[after.ids[Len(before.ids) + i]]]]

InitRun ==
    /\ \E l \in Layouts :
          entities = MakeEntities(<<1, 5, 6, 2, 3, 4, 7>>, l, 3, 2, Idle)
    /\ msg_log = MsgLogNew
    /\ settings = [state |-> "Playing", turn_count |-> 0, exiting |-> FALSE]
    /\ input_action = InputNone
    /\ running = TRUE
    /\ game_result = "Continue"
    /\ pc = "run_step_game"
    /\ caller = "none"
    /\ locals = NoLocals
    /\ fov = [pos |-> 0, radius |-> FOV_RADIUS_PLAYER, count |-> 0]
    /\ frame = 0
    /\ events = <<>>
    /\ momentum = MomentumDefault
    /\ objects = ObjectsDefault
    /\ GridsDefault

\* game.step_game() has returned and left its messages in the log
RunStepGame ==
    /\ pc = "run_step_game"
    /\ \E msgs \in RunLogs : msg_log' = [msg_log EXCEPT !.messages = msgs]
    /\ locals' = [locals EXCEPT !.idx = 1]
    /\ events' = <<>>
    /\ pc' = "run_messages"
    /\ UNCHANGED <<entities, settings, input_action, running, game_result, caller,
                   fov, frame, value_vars>>

\* one iteration of `for msg in game.msg_log.messages.iter()`
RunHandleMessage ==
    /\ pc = "run_messages"
    /\ locals.idx <= Len(msg_log.messages)
    /\ LET msg == msg_log.messages[locals.idx]
       IN  /\ entities' = RunMatch(entities, msg)
           /\ events' = Append(events, EvHandled(msg, entities, entities'))
    /\ locals' = [locals EXCEPT !.idx = @ + 1]
    /\ UNCHANGED <<msg_log, settings, input_action, running, game_result, pc, caller,
                   fov, frame, value_vars>>

\* game.msg_log.clear() after the loop; the frame is over
RunClear ==
    /\ pc = "run_messages"
    /\ locals.idx > Len(msg_log.messages)
    /\ msg_log' = Clear(msg_log)
    /\ locals' = NoLocals
    /\ frame' = frame + 1
    /\ pc' = IF frame + 1 < MaxFrames THEN "run_step_game" ELSE "exit"
    /\ UNCHANGED <<entities, settings, input_action, running, game_result, caller,
                   fov, events, value_vars>>

NextRun == RunStepGame \/ RunHandleMessage \/ RunClear

SpecRun == InitRun /\ [][NextRun]_vars

---------------------------------------------------------------------------
(* AwarenessMap called with every kind of position on maps of its own     *)

\* the positions of a grid
Tiles == (0 .. (GridWidth - 1)) \X (0 .. (GridHeight - 1))

\* positions handed to the functions: every tile and some outside the grid
GridPositions == Tiles \cup {<<-1, 0>>, <<GridWidth, 0>>, <<0, GridHeight>>}

\* weights a tile starts with: 0.0, 0.5, 1.0
Weights == {0, 50, WeightOne}

InitAwareness ==
    /\ NoGame("awareness")
    /\ momentum = MomentumDefault
    /\ objects = ObjectsDefault
    /\ map = MapFromDims(GridWidth, GridHeight)
    /\ structures = <<>>
    /\ CallsDefault
    /\ \E a, b \in Tiles, wa, wb \in Weights :
          awareness = [AwarenessMapNew(GridWidth, GridHeight) EXCEPT
                          !.weights[a[2]][a[1]] = wa, !.weights[b[2]][b[1]] = wb]

AwarenessExpectedPosition ==
    /\ pc = "awareness"
    /\ \E position \in GridPositions :
         /\ awareness' = expected_position(awareness, position)
         /\ events' = <<EvCall("expected_position", position, awareness)>>
    /\ UNCHANGED <<game_vars, momentum, objects, map, structures, call_vars>>

AwarenessVisible ==
    /\ pc = "awareness"
    /\ \E position \in GridPositions :
         /\ ~ VisibleOutOfBounds(awareness, position)
         /\ awareness' = visible(awareness, position)
         /\ events' = <<EvCall("visible", position, awareness)>>
    /\ UNCHANGED <<game_vars, momentum, objects, map, structures, call_vars>>

\* disperse returns (build without overflow checks)
AwarenessDisperse ==
    /\ pc = "awareness"
    /\ awareness' = disperse(awareness)
    /\ events' = <<EvCall("disperse", 0, awareness)>>
    /\ UNCHANGED <<game_vars, momentum, objects, map, structures, call_vars>>

\* visible indexes outside the vectors, or disperse subtracts from 0 in a
\* build with overflow checks
AwarenessPanic ==
    /\ pc = "awareness"
    /\ \/ \E position \in GridPositions : VisibleOutOfBounds(awareness, position)
       \/ DisperseOverflows(awareness)
    /\ pc' = "panic"
    /\ UNCHANGED <<entities, msg_log, settings, input_action, running, game_result,
                   caller, locals, fov, frame, events, value_vars>>

NextAwareness ==
    \/ AwarenessExpectedPosition
    \/ AwarenessVisible
    \/ AwarenessDisperse
    \/ AwarenessPanic

SpecAwareness == InitAwareness /\ [][NextAwareness]_vars

---------------------------------------------------------------------------
(* make_map.rs functions called on every Map of the grid size             *)

InitMap ==
    /\ NoGame("map")
    /\ momentum = MomentumDefault
    /\ objects = ObjectsDefault
    /\ awareness = AwarenessMapNew(GridWidth, GridHeight)
    /\ structures = <<>>
    /\ CallsDefault
    /\ \E blocked \in [Tiles -> BOOLEAN] :
          map = [width |-> GridWidth, height |-> GridHeight, blocked |-> blocked]

MapHandleDiagonalFullTileWalls ==
    /\ pc = "map"
    /\ map' = handle_diagonal_full_tile_walls(map)
    /\ events' = <<EvCall("handle_diagonal_full_tile_walls", 0, map)>>
    /\ UNCHANGED <<game_vars, momentum, objects, awareness, structures, call_vars>>

MapFindStructures ==
    /\ pc = "map"
    /\ structures' = find_structures(map)
    /\ events' = <<EvCall("find_structures", 0, map)>>
    /\ UNCHANGED <<game_vars, momentum, objects, awareness, map, call_vars>>

NextMap == MapHandleDiagonalFullTileWalls \/ MapFindStructures

SpecMap == InitMap /\ [][NextMap]_vars

---------------------------------------------------------------------------
(* step_logic called on a store in which an entity that has a count down  *)
(* is also flagged for removal: every combination the two tests of the    *)
(* sweep can meet.                                                        *)

\* the trap on the exit tile with a count down, a flag and an animation queue
WithCountDown(e, id, count, flag, anim) ==
    [e EXCEPT !.count_down = IF count < 0 THEN @ ELSE Insert(@, id, count),
              !.needs_removal[id] = flag,
              !.animation[id] = anim]

SweepStores ==
    { WithCountDown(MakeEntities(<<1, 5, 6, 2, 3, 4, 7>>,
                                 [player |-> ExitPos - 1, gol |-> 0, elf |-> 1,
                                  spikes |-> 2, spikes2 |-> ExitPos, key |-> TRUE],
                                 php, 2, Idle),
                    Spikes2Id, count, flag, anim) :
        php \in {1, 3}, count \in {-1, 0, 1}, flag \in BOOLEAN,
        anim \in {<<>>, <<"die">>} }

InitSweep == \E e \in SweepStores : InitGame(e)

SpecSweep == InitSweep /\ [][Next]_vars

---------------------------------------------------------------------------
(* Selection::select and SelectionAction::action_from_pos called on every *)
(* kind of selection, with and without a player in the store.             *)

SelectionTypes ==
    {WithinRadius(n) : n \in 0 .. 2} \cup {WithinReach(n) : n \in 1 .. 2}

InitSelection ==
    /\ NoGame("selection")
    /\ momentum = MomentumDefault
    /\ objects = ObjectsDefault
    /\ awareness = AwarenessMapNew(GridWidth, GridHeight)
    /\ map = MapFromDims(GridWidth, GridHeight)
    /\ structures = <<>>
    /\ text = [lines |-> <<>>, result |-> <<>>]
    /\ \E typ \in SelectionTypes, action \in {"Throw", "Hammer"},
          pos \in Positions, selected \in Positions :
          selection = [typ |-> typ, action |-> action, pos |-> pos,
                       selected |-> selected, result |-> <<>>]

\* the store the selection is made on: a level with or without its player
SelectionStores ==
    LET e == MakeEntities(<<1, 5, 6, 2, 3, 4, 7>>,
                          [player |-> 2, gol |-> 3, elf |-> 4, spikes |-> 1,
                           spikes2 |-> 0, key |-> FALSE], 3, 2, Idle)
    IN  {e, WithoutPlayer(e)}

\* selection.select(pos, selected, data) returns
SelectionSelect ==
    /\ pc = "selection"
    /\ \E e \in SelectionStores :
         /\ ~ ActionFromPosPanics(e)
         /\ selection' = [selection EXCEPT
                !.result = select(selection, selection.pos, selection.selected, e)]
         /\ events' = <<EvCall("select", 0, selection)>>
    /\ UNCHANGED <<game_vars, momentum, objects, grid_vars, text>>

\* selection.action.action_from_pos(pos, data) returns
SelectionActionFromPos ==
    /\ pc = "selection"
    /\ \E e \in SelectionStores :
         /\ ~ ActionFromPosPanics(e)
         /\ selection' = [selection EXCEPT
                !.result = <<action_from_pos(selection.action, selection.pos, e)>>]
         /\ events' = <<EvCall("action_from_pos", 0, selection)>>
    /\ UNCHANGED <<game_vars, momentum, objects, grid_vars, text>>

\* the store has no player: unwrap panics
SelectionPanic ==
    /\ pc = "selection"
    /\ \E e \in SelectionStores : ActionFromPosPanics(e)
    /\ pc' = "panic"
    /\ UNCHANGED <<entities, msg_log, settings, input_action, running, game_result,
                   caller, locals, fov, frame, events, value_vars>>

NextSelection == SelectionSelect \/ SelectionActionFromPos \/ SelectionPanic

SpecSelection == InitSelection /\ [][NextSelection]_vars

---------------------------------------------------------------------------
(* remove_commas and parse_ascii_chars called on lines of every shape     *)

\* a comma, a space, another character
LineChars == {",", " ", "9"}

LineInputs == UNION { [1 .. n -> LineChars] : n \in 0 .. MaxLine }

GridChars == {"#", "%", ";", "\"", "|", "_", "EM", "g", "w"}

\* a grid of spaces with one character set
GridWith(rows, cols, r, c, chr) ==
    [i \in 1 .. rows |-> [j \in 1 .. cols |-> IF i = r /\ j = c THEN chr ELSE " "]]

\* the grid of test_parse_vault
TestGrid ==
    << <<"|", "\"", " ", "#">>,
       <<" ", " ", " ", " ">>,
       <<" ", "#", " ", " ">>,
       <<" ", "_", " ", "_">>,
       <<" ", " ", " ", "w">>,
       <<" ", " ", " ", " ">> >>

GridInputs ==
    { GridWith(rows, cols, rc[1], rc[2], chr) :
        rows \in 1 .. MaxRows, cols \in 0 .. MaxCols,
        rc \in (1 .. MaxRows) \X (1 .. MaxCols), chr \in GridChars }
    \cup {TestGrid, <<>>}

InitText ==
    /\ NoGame("text")
    /\ momentum = MomentumDefault
    /\ objects = ObjectsDefault
    /\ awareness = AwarenessMapNew(GridWidth, GridHeight)
    /\ map = MapFromDims(GridWidth, GridHeight)
    /\ structures = <<>>
    /\ selection = [typ |-> [t |-> "WithinRadius", n |-> 0], action |-> "Throw",
                    pos |-> 0, selected |-> 0, result |-> <<>>]
    /\ \E lines \in {<<s>> : s \in LineInputs} \cup GridInputs :
          text = [lines |-> lines, result |-> <<>>]

\* remove_commas(line) returns, for one of the lines
TextRemoveCommas ==
    /\ pc = "text"
    /\ \E i \in 1 .. Len(text.lines) :
         /\ ~ RemoveCommasPanics(text.lines[i])
         /\ text' = [text EXCEPT !.result = remove_commas(text.lines[i])]
         /\ events' = <<EvCall("remove_commas", i, text)>>
    /\ UNCHANGED <<game_vars, momentum, objects, grid_vars, selection>>

\* parse_ascii_chars(lines, config) returns
TextParseAsciiChars ==
    /\ pc = "text"
    /\ ~ ParseAsciiCharsPanics(text.lines)
    /\ text' = [text EXCEPT !.result = parse_ascii_chars(text.lines)]
    /\ events' = <<EvCall("parse_ascii_chars", 0, text)>>
    /\ UNCHANGED <<game_vars, momentum, objects, grid_vars, selection>>

\* one of the two calls indexes an empty vector
TextPanic ==
    /\ pc = "text"
    /\ \/ \E i \in 1 .. Len(text.lines) : RemoveCommasPanics(text.lines[i])
       \/ ParseAsciiCharsPanics(text.lines)
    /\ pc' = "panic"
    /\ UNCHANGED <<entities, msg_log, settings, input_action, running, game_result,
                   caller, locals, fov, frame, events, value_vars>>

NextText == TextRemoveCommas \/ TextParseAsciiChars \/ TextPanic

SpecText == InitText /\ [][NextText]_vars

---------------------------------------------------------------------------
(* Properties of the turn scheduler *)

LogsBefore(i) == Cardinality({k \in 1 .. (i - 1) : events[k].ev = "log"})

ResolvesBefore(i) == Cardinality({k \in 1 .. (i - 1) : events[k].ev = "resolve"})

\* events[i] is the scheduler logging the Action of an AI entity
\* (events[1] is the player's Action)
IsAiLog(i) == i > 1 /\ events[i].ev = "log" /\ events[i].by = "scheduler"

\* events[i] asks the AI engine or logs an AI entity's Action
IsAiStep(i) == events[i].ev \in {"collect", "ai_take_turn"} \/ IsAiLog(i)

InAiPhase == pc \in {"ai_take_turn", "ai_action", "resolve_ai", "end_turn"}

\* C1: AI entities are handled one at a time: when the turn-plan of AI
\* entity B is requested, the Action of every AI entity A collected before
\* B has been logged and resolved to a fixed point.
C1_PlanAfterEarlierResolved ==
    \A i \in 1 .. Len(events) :
        events[i].ev = "ai_take_turn" =>
            /\ LogsBefore(i) = ResolvesBefore(i)
            /\ \A a, b \in 1 .. Len(locals.ai_id) :
                   (a < b /\ locals.ai_id[b] = events[i].id) =>
                       \E k \in 1 .. (i - 1) :
                           IsAiLog(k) /\ events[k].msg.id = locals.ai_id[a]

\* C2: the player's Action and everything it caused is resolved before any
\* AI entity is collected, consulted or has its Action logged.
C2_PlayerChainBeforeAi ==
    \A i \in 1 .. Len(events) :
        IsAiStep(i) =>
            \E c \in 1 .. i :
                /\ events[c].ev = "collect"
                /\ \A k \in 1 .. (c - 1) :
                       events[k].ev = "log" =>
                           \E r \in 1 .. (c - 1) :
                               /\ events[r].ev = "resolve"
                               /\ events[r].n = events[k].n
                               /\ events[r].msg = events[k].msg

\* C2 witness: the AI engine is consulted after a player Action that caused
\* further messages
C2_Witness ==
    \E i \in 1 .. Len(events) :
        /\ events[i].ev = "ai_take_turn"
        /\ \E k \in 1 .. (i - 1) : events[k].ev = "log" /\ events[k].by = "handler"

\* C3: when the scheduler logs an AI entity's Action nothing is pending and
\* every message logged before (the earlier AI entities' chains) is resolved.
C3_NoInterleaving ==
    \A i \in 1 .. Len(events) :
        IsAiLog(i) =>
            /\ events[i].pending = 0
            /\ LogsBefore(i) = ResolvesBefore(i)

\* C3 witness: a second AI Action is logged after the first one caused
\* further messages
C3_Witness ==
    \E i, j \in 1 .. Len(events) :
        /\ i < j /\ IsAiLog(i) /\ IsAiLog(j)
        /\ \E k \in (i + 1) .. (j - 1) : events[k].ev = "log" /\ events[k].by = "handler"

\* the AI entities whose Action the scheduler has logged, in that order
ActedIds ==
    LET S == SelectSeq(events, LAMBDA x : x.ev = "log" /\ x.by = "scheduler" /\ x.n > 1)
    IN  [i \in 1 .. Len(S) |-> S[i].msg.id]

IndexIn(s, x) == CHOOSE i \in 1 .. Len(s) : s[i] = x

\* the collect event of the current turn
Collected == EventsOf("collect")[1]

\* C4: the AI entities act in the order of entities.ids: the ids whose Action
\* is logged follow the order of entities.ids, and once all have acted they
\* are exactly the combatants found at the collection, in that order (a
\* function of the store, the same for every run from the same state).
C4_AiOrder ==
    (pc \in {"ai_action", "resolve_ai", "end_turn"}) =>
        /\ \A a, b \in 1 .. Len(ActedIds) :
               a < b =>
                   /\ ActedIds[a] \in Live(entities) /\ ActedIds[b] \in Live(entities)
                   /\ IndexIn(entities.ids, ActedIds[a]) < IndexIn(entities.ids, ActedIds[b])
        /\ pc = "end_turn" =>
               ActedIds = SelectSeq(entities.ids,
                                    LAMBDA k : Collected.player_alive
                                               /\ k \in Collected.combatants)

\* C4 witness: two AI entities have acted and the insertion order is not the
\* order of their id values
C4_Witness ==
    /\ pc = "end_turn"
    /\ Len(ActedIds) = 2
    /\ ActedIds[1] > ActedIds[2]

\* C5: an AI Action is logged only for an entity that had an AI tag, was
\* alive and had a Fighter when the player's action was resolved, and only
\* if the player was alive then; with the player not alive after its own
\* action the turn ends without any AI Action.
C5_OnlyCombatantsAct ==
    /\ \A i \in 1 .. Len(events) :
           IsAiLog(i) =>
               \E c \in 1 .. (i - 1) :
                   /\ events[c].ev = "collect"
                   /\ events[c].player_alive
                   /\ events[i].msg.id \in events[c].combatants
    /\ (pc = "return" /\ ~ Collected.player_alive) => Len(ActedIds) = 0

\* C5 witness: an AI entity acts while another entity with an AI tag is no
\* combatant
C5_Witness ==
    /\ \E i \in 1 .. Len(events) : IsAiLog(i)
    /\ \E c \in 1 .. Len(events) :
           /\ events[c].ev = "collect"
           /\ \E k \in Live(entities) : Has(entities.ai, k) /\ k \notin events[c].combatants

\* C6: when step_logic returns nothing is pending and every message logged
\* during the turn is in turn_messages.
C6_TotalResolution ==
    pc = "return" =>
        /\ msg_log.messages = <<>>
        /\ Len(msg_log.turn_messages) = Logged
        /\ \A k \in 1 .. Logged :
               msg_log.turn_messages[k] = EventsOf("log")[k].msg

\* C6 witness: a turn ends in which the scheduler and the handlers logged messages
C6_Witness ==
    /\ pc = "return"
    /\ Len(ActedIds) >= 1
    /\ \E i \in 1 .. Len(events) : events[i].ev = "log" /\ events[i].by = "handler"

\* C7: messages are resolved oldest first, and a message produced while
\* handling M is logged behind M and resolved after it.
C7_CausalOrder ==
    /\ \A k \in 1 .. Len(msg_log.turn_messages) :
           k <= Logged /\ msg_log.turn_messages[k] = EventsOf("log")[k].msg
    /\ \A p \in 1 .. Len(events) :
           (events[p].ev = "log" /\ events[p].by = "handler") =>
               /\ ResolvesBefore(p) >= 1
               /\ events[p].n > ResolvesBefore(p)

\* C7 witness: a handler's message was logged behind a pending one, and all
\* are resolved
C7_Witness ==
    /\ pc = "return"
    /\ \E p \in 1 .. Len(events) :
           events[p].ev = "log" /\ events[p].by = "handler" /\ events[p].pending >= 1

\* C8: an AI entity whose hp is <= 0 after its own Action is resolved is, from
\* then until the sweep, not alive, not blocking, shown as '%', without
\* Fighter, and still in the store.
C8_InlineDeath ==
    (pc \in {"ai_action", "resolve_ai", "end_turn"}) =>
        \A i \in 1 .. Len(events) :
            (events[i].ev = "ai_done" /\ events[i].dead) =>
                LET k == events[i].id
                IN  /\ k \in Live(entities)
                    /\ ~ entities.alive[k]
                    /\ ~ entities.blocks[k]
                    /\ entities.chr[k] = "%"
                    /\ ~ Has(entities.fighter, k)

\* C8 witness: an AI entity died of its own action and the next one is about to act
C8_Witness ==
    /\ pc = "ai_action"
    /\ \E i \in 1 .. Len(events) : events[i].ev = "ai_done" /\ events[i].dead

\* C9: a player with hp <= 0 at the check is marked not alive and the state
\* becomes Lose unless it was Win or Lose, which are left unchanged.
C9_PlayerDeathLose ==
    [][(pc = "end_turn"
        /\ Has(entities.fighter, locals.player_id)
        /\ entities.fighter[locals.player_id].hp <= 0) =>
          /\ ~ entities'.alive[locals.player_id]
          /\ (settings.state \notin {"Win", "Lose"} => settings'.state = "Lose")
          /\ (settings.state \in {"Win", "Lose"} => settings'.state = settings.state)]_vars

\* C10: at the end of step_logic every entity with a Fighter of hp <= 0 is
\* not alive.
C10_DeadNotAlive ==
    pc = "return" =>
        \A id \in Live(entities) :
            (Has(entities.fighter, id) /\ entities.fighter[id].hp <= 0) =>
                ~ entities.alive[id]

\* C10 witness: at the end of a turn an entity other than the player has
\* hp <= 0 through another entity's action
C10_Witness ==
    /\ pc = "return"
    /\ \E id \in Live(entities) \ {locals.player_id} :
           /\ Has(entities.fighter, id) /\ entities.fighter[id].hp <= 0
           /\ \E i \in 1 .. Len(events) :
                  /\ events[i].ev = "log" /\ events[i].msg.kind = "Attack"
                  /\ events[i].msg.target = id /\ events[i].msg.attacker # id

---------------------------------------------------------------------------
(* Properties of the sweep *)

\* the sweep event of the current turn
Swept == EventsOf("sweep")[1]

HasSwept == pc = "return" /\ Len(EventsOf("sweep")) = 1

\* C11: an entity whose count down is 1 when the sweep starts (it reaches
\* zero in this sweep) is gone from the store when step_logic returns.
C11_CountdownExpiry ==
    HasSwept =>
        \A id \in Live(Swept.before) :
            (Has(Swept.before.count_down, id) /\ Swept.before.count_down[id] = 1) =>
                id \notin Live(entities)

\* what the sweep does with a count down: an entity found at 0 is removed,
\* any other count loses one and the entity stays
C11_CountdownCode ==
    HasSwept =>
        \A id \in Live(Swept.before) :
            Has(Swept.before.count_down, id) =>
                IF Swept.before.count_down[id] = 0
                THEN id \notin Live(entities)
                ELSE /\ id \in Live(entities)
                     /\ entities.count_down[id] = Swept.before.count_down[id] - 1

\* C12: an entity without a count down is removed by the sweep if and only
\* if its needs_removal flag is set and its animation queue is empty at the
\* sweep; every other such entity is still in the store after the turn.
C12_FlagRemoval ==
    HasSwept =>
        \A id \in Live(Swept.before) :
            ~ Has(Swept.before.count_down, id) =>
                (id \notin Live(entities)
                    <=> (Swept.before.needs_removal[id]
                         /\ Len(Swept.before.animation[id]) = 0))

\* C12 witness: one sweep removes a flagged entity without animation and
\* keeps a flagged entity whose animation is pending
C12_Witness ==
    /\ HasSwept
    /\ \E id \in Live(Swept.before) \ Live(entities) :
           ~ Has(Swept.before.count_down, id) /\ Swept.before.needs_removal[id]
    /\ \E id \in Live(entities) :
           entities.needs_removal[id] /\ Len(entities.animation[id]) > 0

\* the capability tables that have an entry for id
EntriesOf(e, id) ==
    {c \in {"pos", "name", "chr", "color", "blocks", "alive", "fighter", "ai",
            "behavior", "action", "item", "inventory", "count_down",
            "needs_removal", "animation"} : id \in DOMAIN e[c]}

\* C13: an entity that has a Fighter with hp <= 0 and no pending animation
\* when the sweep starts is removed by it: the id leaves the live list and
\* every capability table.
C13_DeadRemoved ==
    HasSwept =>
        \A id \in Live(Swept.before) :
            (/\ Has(Swept.before.fighter, id)
             /\ Swept.before.fighter[id].hp <= 0
             /\ Len(Swept.before.animation[id]) = 0) =>
                /\ id \notin Live(entities)
                /\ EntriesOf(entities, id) = {}

\* C13 witness: a sweep has removed an entity that was dead and had no animation left
C13_Witness ==
    /\ HasSwept
    /\ \E id \in Live(Swept.before) \ Live(entities) :
           /\ Has(Swept.before.fighter, id)
           /\ Swept.before.fighter[id].hp <= 0
           /\ Len(Swept.before.animation[id]) = 0

---------------------------------------------------------------------------
(* Properties of the end of the turn *)

\* C14: step_logic computes the field of view exactly when the player's
\* position after the sweep differs from the one recorded before the
\* player's action: then once, at the new position with the player's
\* radius; otherwise not at all.
C14_FovRecompute ==
    [][(pc = "end_turn" /\ pc' = "return") =>
          LET player_pos == entities'.pos[locals.player_id]
          IN  IF player_pos # locals.previous_player_position
              THEN fov' = [pos |-> player_pos, radius |-> FOV_RADIUS_PLAYER, count |-> 1]
              ELSE fov' = [fov EXCEPT !.count = 0]]_vars

\* C14 witness: a turn that moved the player has ended with the field of view
\* computed at the new position
C14_Witness ==
    /\ pc = "return"
    /\ entities.pos[locals.player_id] # locals.previous_player_position
    /\ fov.count = 1
    /\ fov.pos = entities.pos[locals.player_id]

\* C14, second case reached: a turn that left the player in place has ended
\* without a computation
C14_WitnessUnmoved ==
    /\ pc = "return"
    /\ entities.pos[locals.player_id] = locals.previous_player_position
    /\ fov.count = 0

NoPlayer(e) == \A id \in Live(e) : e.name[id] # "player"

\* C15: with no player entity in the store, a step_game call that gets as far
\* as step_logic (or as the win check) panics, and the panic leaves the
\* store, the message log, the map's field of view and the settings as they
\* were.
C15_NoPlayerAborts ==
    [][(/\ NoPlayer(entities)
        /\ \/ pc = "step_game" /\ pc' # "display"
           \/ pc = "return" /\ caller = "step_playing") =>
          /\ pc' = "panic"
          /\ entities' = entities
          /\ msg_log' = msg_log
          /\ fov' = fov
          /\ settings' = settings]_vars

\* C15 witness: step_logic was entered without a player and has panicked
C15_Witness ==
    /\ pc = "panic"
    /\ NoPlayer(entities)
    /\ settings.state = "Playing"
    /\ msg_log = MsgLogNew

\* the player carries an entity whose item tag is Goal
CarriesGoal(e) ==
    \E id \in SeqToSet(e.inventory[PlayerId]) : Has(e.item, id) /\ e.item[id] = "Goal"

\* the tile under the player is the Exit tile
OnExit(e) == e.pos[PlayerId] = ExitPos

\* C16: after a turn taken in the Playing state the state is Win exactly
\* when the player carries a Goal item and stands on the Exit tile.
C16_WinCondition ==
    (pc = "display" /\ caller = "step_playing") =>
        (settings.state = "Win" <=> (CarriesGoal(entities) /\ OnExit(entities)))

\* C16 witness: a turn has ended on the Exit tile with the Goal item carried
C16_Witness ==
    /\ pc = "display" /\ caller = "step_playing"
    /\ CarriesGoal(entities) /\ OnExit(entities)
    /\ settings.state = "Win"

\* C16, the cases with one condition missing are reached
C16_WitnessNoGoal ==
    /\ pc = "display" /\ caller = "step_playing"
    /\ ~ CarriesGoal(entities) /\ OnExit(entities)

C16_WitnessNoExit ==
    /\ pc = "display" /\ caller = "step_playing"
    /\ CarriesGoal(entities) /\ ~ OnExit(entities)

---------------------------------------------------------------------------
(* Properties of Momentum::moved *)

\* C17: after any sequence of moved(dx, dy) calls on a Momentum that starts
\* with |mx| <= max and |my| <= max (max >= 0), both still hold.
C17_MomentumBounded ==
    (pc = "moved") =>
        /\ Abs(momentum.mx) <= momentum.max
        /\ Abs(momentum.my) <= momentum.max

\* C17 witness: a call at the cap, in the direction of the momentum, has returned
C17_Witness ==
    /\ pc = "moved" /\ events # <<>>
    /\ events[1].before.mx = momentum.max /\ momentum.max > 0
    /\ events[1].dx > 0
    /\ momentum.mx = momentum.max

\* the last call was given, on an axis holding mv, a direction d of the opposite sign
Reversed(mv, d) == mv # 0 /\ Signum(d) = -Signum(mv) /\ Signum(d) # 0

\* the last call was given a direction d that does not disagree with mv
Along(mv, d) == Signum(d) # 0 /\ (mv = 0 \/ Signum(d) = Signum(mv))

\* C18: a call whose direction on an axis is opposite to that axis's nonzero
\* momentum leaves the axis at exactly 0; a call in the direction of the
\* axis, or on an axis at 0, moves it one step further from zero, and at
\* the cap it stays at the cap.
C18_ReversalKills ==
    (pc = "moved" /\ events # <<>>) =>
        LET b == events[1].before
            Axis(before, d, after) ==
                /\ Reversed(before, d) => after = 0
                /\ (Along(before, d) /\ Abs(before) < b.max) =>
                       after = before + Signum(d)
                /\ (Along(before, d) /\ Abs(before) = b.max /\ b.max < MaxInt) =>
                       after = before
        IN  /\ Axis(b.mx, events[1].dx, momentum.mx)
            /\ Axis(b.my, events[1].dy, momentum.my)

\* C18 witness: mx = +2 with max 2, called with dx = -1, is now 0
C18_Witness ==
    /\ pc = "moved" /\ events # <<>>
    /\ events[1].before.mx = 2 /\ events[1].before.max = 2
    /\ events[1].dx = -1
    /\ momentum.mx = 0

\* C18, the ramp after the reversal is reached: from 0 one step in the new direction
C18_WitnessRamp ==
    /\ pc = "moved" /\ events # <<>>
    /\ events[1].before.mx = 0 /\ events[1].before.max = 2
    /\ events[1].dx = -1
    /\ momentum.mx = -1

\* C25: a zero direction counts as disagreeing with nonzero momentum: a call
\* with dx = 0 while mx # 0 leaves mx = 0 (likewise for y), so a move along
\* one axis wipes the momentum of the other axis; an axis with zero momentum
\* and zero direction stays 0.
C25_ZeroDirectionResets ==
    (pc = "moved" /\ events # <<>>) =>
        LET b == events[1].before
        IN  /\ events[1].dx = 0 => momentum.mx = 0
            /\ events[1].dy = 0 => momentum.my = 0
            /\ (events[1].dx # 0 /\ events[1].dy = 0 /\ b.my # 0) => momentum.my = 0
            /\ (events[1].dy # 0 /\ events[1].dx = 0 /\ b.mx # 0) => momentum.mx = 0

\* C25 witness: at mx = 1, my = 2 a purely horizontal move (dx = 1, dy = 0)
\* has raised mx and wiped my
C25_Witness ==
    /\ pc = "moved" /\ events # <<>>
    /\ events[1].before.mx = 1 /\ events[1].before.my = 2
    /\ events[1].before.max = 2
    /\ events[1].dx = 1 /\ events[1].dy = 0
    /\ momentum.mx = 2 /\ momentum.my = 0

---------------------------------------------------------------------------
(* Properties of Object::attack, take_damage and heal *)

\* the last call was self.attack(target)
Attacked == pc = "object" /\ events # <<>> /\ events[1].ev = "attack"

C20_HpAtMostMax ==
    (pc = "object" /\ objects.target.fighter.some) =>
        objects.target.fighter.hp <= objects.target.fighter.max_hp

\* what holds of hp: a call that returns without an overflow leaves hp <= max_hp
C20_HpAtMostMaxNoOverflow ==
    (/\ pc = "object" /\ events # <<>> /\ objects.target.fighter.some
     /\ events[1].before.target.fighter.hp <= events[1].before.target.fighter.max_hp
     /\ ~ (events[1].ev = "attack"
           /\ AttackOverflows(events[1].before.self, events[1].before.target))
     /\ ~ (events[1].ev = "take_damage"
           /\ TakeDamageOverflows(events[1].before.target, events[1].arg))) =>
        objects.target.fighter.hp <= objects.target.fighter.max_hp

---------------------------------------------------------------------------
(* Properties of the main loop *)

\* C27: whenever step_game has returned Stop, the main loop's running flag
\* is cleared in that same iteration, whatever the game state is.
C27_StopStopsLoop ==
    (pc = "display" /\ game_result = "Stop") => ~ running

\* the messages of a sequence of events
MsgsOf(evs) == [i \in 1 .. Len(evs) |-> evs[i].msg]

\* s is an initial part of t
IsPrefix(s, t) == Len(s) <= Len(t) /\ s = SubSeq(t, 1, Len(s))

\* C21: in every frame the display is handed each message resolved in this
\* frame exactly once, in resolution order (and no message of an earlier
\* frame); the log is emptied by that step of the main loop, and at every
\* other step turn_messages only grows.
C21_HandOff ==
    [][/\ pc = "display" =>
            /\ msg_log.turn_messages = MsgsOf(EventsOf("resolve"))
            /\ MsgsOf(events') = msg_log.turn_messages
            /\ \A i \in 1 .. Len(events') : events'[i].ev = "display"
            /\ msg_log'.turn_messages = <<>>
       /\ pc # "display" => IsPrefix(msg_log.turn_messages, msg_log'.turn_messages)
      ]_vars

\* C21 witness: the display has been handed two or more messages, and this
\* is not the first frame
C21_Witness ==
    /\ frame >= 2 /\ pc = "step_game"
    /\ Len(events) >= 2
    /\ events[1].ev = "display" /\ events[1].msg # events[2].msg

\* the changes of Behavior the AI engine makes
BehaviorEdges ==
    {<<"Idle", "Investigating">>, <<"Investigating", "Attacking">>,
     <<"Investigating", "Idle">>, <<"Attacking", "Investigating">>}

\* C24: an AI entity holds exactly one Behavior, and a step changes its kind
\* only along Idle -> Investigating, Investigating -> Attacking,
\* Investigating -> Idle and Attacking -> Investigating.
C24_BehaviorEdges ==
    [][\A id \in Live(entities) :
          Has(entities.behavior, id) =>
              /\ entities.behavior[id].b \in {"Idle", "Investigating", "Attacking"}
              /\ (id \in Live(entities') /\ Has(entities'.behavior, id)) =>
                     \/ entities'.behavior[id].b = entities.behavior[id].b
                     \/ <<entities.behavior[id].b, entities'.behavior[id].b>>
                            \in BehaviorEdges
      ]_vars

\* a StateChange to the kind b of an entity was resolved in this turn and
\* the entity holds that Behavior now
ChangedTo(b) ==
    \E i \in 1 .. Len(events) :
        /\ events[i].ev = "resolve" /\ events[i].msg.kind = "Action"
        /\ events[i].msg.action.type = "StateChange"
        /\ events[i].msg.action.behavior.b = b
        /\ Has(entities.behavior, events[i].msg.id)
        /\ entities.behavior[events[i].msg.id].b = b

\* C24 witness: an entity went from Investigating to Attacking in this turn
C24_Witness == ChangedTo("Attacking")

\* C24, the change from Idle to Investigating is taken as well
C24_WitnessInvestigating == ChangedTo("Investigating")

\* what holds: outside the Win state a Stop clears the flag, and the loop
\* is left at the end of an iteration whose flag is cleared
C27_StopStopsLoopUnlessWin ==
    /\ (pc = "display" /\ game_result = "Stop" /\ settings.state # "Win") => ~ running
    /\ (pc = "step_game") => running

---------------------------------------------------------------------------
(* Properties of the message handling of run *)

\* s holds every element of t exactly once and nothing else
SameOnce(s, t) ==
    /\ Len(s) = Len(t)
    /\ \A p \in SeqToSet(s) \cup SeqToSet(t) :
          Cardinality({i \in 1 .. Len(s) : s[i] = p})
              = Cardinality({i \in 1 .. Len(t) : t[i] = p})

\* the handled messages of this frame of the kind k
HandledOf(k) == SelectSeq(events, LAMBDA x : x.ev = "handled" /\ x.msg.kind = k)

\* C26: for every StoneThrow or Yell handled, exactly one sound entity is
\* created for each position of the sound area, and the area is centred on
\* the position the message carries: the end of the throw, the position of
\* the Yell.
C26_SoundAtMessagePosition ==
    (pc = "run_messages") =>
        /\ \A i \in 1 .. Len(HandledOf("StoneThrow")) :
              SameOnce(HandledOf("StoneThrow")[i].created,
                       aoe_fill(HandledOf("StoneThrow")[i].msg.end, SOUND_RADIUS_STONE))
        /\ \A i \in 1 .. Len(HandledOf("Yell")) :
              SameOnce(HandledOf("Yell")[i].created,
                       aoe_fill(HandledOf("Yell")[i].msg.pos, PLAYER_YELL_RADIUS))

\* what holds: one sound per position of the area around the end of the
\* throw, and for a Yell around the position of the player
C26_SoundAtPlayerPosition ==
    (pc = "run_messages") =>
        /\ \A i \in 1 .. Len(HandledOf("StoneThrow")) :
              SameOnce(HandledOf("StoneThrow")[i].created,
                       aoe_fill(HandledOf("StoneThrow")[i].msg.end, SOUND_RADIUS_STONE))
        /\ \A i \in 1 .. Len(HandledOf("Yell")) :
              LET before == HandledOf("Yell")[i].before
              IN  SameOnce(HandledOf("Yell")[i].created,
                           aoe_fill(before.pos[FindPlayer(before)], PLAYER_YELL_RADIUS))

---------------------------------------------------------------------------
(* Properties of AwarenessMap *)

\* the last call was f
Called(at, f) == pc = at /\ events # <<>> /\ events[1].ev = f

\* C22: after expected_position(p) with p inside the grid the weight at p is
\* 1 and the weight of every other tile is 0, whatever the weights were
\* before, and a second call with the same p changes nothing.
C22_SightingCollapses ==
    (Called("awareness", "expected_position") /\ events[1].arg \in Tiles) =>
        /\ \A t \in Tiles :
              awareness.weights[t[2]][t[1]] = IF t = events[1].arg THEN WeightOne ELSE 0
        /\ expected_position(awareness, events[1].arg) = awareness
        /\ awareness.alt_weights = events[1].before.alt_weights

\* C22 witness: a map with weight on two other tiles has collapsed onto p
C22_Witness ==
    /\ Called("awareness", "expected_position")
    /\ events[1].arg = <<0, 0>>
    /\ events[1].before.weights[1][1] = 50
    /\ events[1].before.weights[0][1] = WeightOne
    /\ events[1].before.weights[0][0] = 0
    /\ awareness.weights[0][0] = WeightOne
    /\ awareness.weights[1][1] = 0

\* t and u are neighbouring tiles (the eight directions of disperse)
Neighbours(t, u) ==
    t # u /\ Abs(t[1] - u[1]) <= 1 /\ Abs(t[2] - u[2]) <= 1

\* C23: after one disperse step, every in-bounds neighbour of a tile that
\* held positive weight has more weight than before, for every tile of the
\* grid including row 0 and column 0.
C23_DisperseSpreads ==
    Called("awareness", "disperse") =>
        \A t, u \in Tiles :
            (events[1].before.weights[t[2]][t[1]] > 0 /\ Neighbours(t, u)) =>
                awareness.weights[u[2]][u[1]] > events[1].before.weights[u[2]][u[1]]

\* what disperse does: it returns the weights it was given
C23_DisperseKeeps ==
    Called("awareness", "disperse") => awareness = events[1].before

---------------------------------------------------------------------------
(* Properties of make_map.rs *)

\* the 2x2 window at (x, y) of m has one diagonal blocked and the other open
DiagonalAt(m, x, y) ==
    \/ /\ m.blocked[<<x, y>>] /\ m.blocked[<<x + 1, y + 1>>]
       /\ ~ m.blocked[<<x + 1, y>>] /\ ~ m.blocked[<<x, y + 1>>]
    \/ /\ m.blocked[<<x + 1, y>>] /\ m.blocked[<<x, y + 1>>]
       /\ ~ m.blocked[<<x, y>>] /\ ~ m.blocked[<<x + 1, y + 1>>]

\* C28: after handle_diagonal_full_tile_walls no 2x2 window of the map has
\* both tiles of one diagonal blocked and both tiles of the other unblocked.
C28_NoDiagonalWalls ==
    Called("map", "handle_diagonal_full_tile_walls") =>
        \A x \in 0 .. (map.width - 2), y \in 0 .. (map.height - 2) :
            ~ DiagonalAt(map, x, y)

\* what the pass does keep: it only adds walls
C28_OnlyAddsWalls ==
    Called("map", "handle_diagonal_full_tile_walls") =>
        \A t \in Tiles : events[1].before.blocked[t] => map.blocked[t]

\* the blocked tiles of m
Blocked(m) == {t \in DOMAIN m.blocked : m.blocked[t]}

\* C29: the block lists of the structures find_structures returns are
\* pairwise disjoint, hold no position twice, and their union is the set
\* of blocked tiles of the map.
C29_EveryWallOnce ==
    Called("map", "find_structures") =>
        /\ \A i \in 1 .. Len(structures) :
              \A a, b \in 1 .. Len(structures[i].blocks) :
                  a # b => structures[i].blocks[a] # structures[i].blocks[b]
        /\ \A i, j \in 1 .. Len(structures) :
              i # j => SeqToSet(structures[i].blocks) \cap SeqToSet(structures[j].blocks) = {}
        /\ UNION {SeqToSet(structures[i].blocks) : i \in 1 .. Len(structures)}
               = Blocked(map)

\* t and u share an edge
Adjacent4(t, u) == Abs(t[1] - u[1]) + Abs(t[2] - u[2]) = 1

\* the 4-connected group of blocked tiles that holds the tiles of S
RECURSIVE GroupOf(_, _)
GroupOf(m, S) ==
    LET N == S \cup {u \in Blocked(m) : \E t \in S : Adjacent4(t, u)}
    IN  IF N = S THEN S ELSE GroupOf(m, N)

Groups(m) == {GroupOf(m, {t}) : t \in Blocked(m)}

\* the shape of a group g
Shape(g) ==
    IF Cardinality(g) = 1 THEN "Single"
    ELSE IF \E t \in g : Cardinality({u \in g : Adjacent4(t, u)}) >= 3 THEN "Complex"
    ELSE IF (\A t, u \in g : t[1] = u[1]) \/ (\A t, u \in g : t[2] = u[2]) THEN "Line"
    ELSE "Path"

\* C30: find_structures returns one structure per 4-connected group of
\* blocked tiles, typed by the shape of the group: Single, Line, Path or
\* Complex.
C30_OnePerGroupTyped ==
    Called("map", "find_structures") =>
        /\ Len(structures) = Cardinality(Groups(map))
        /\ \A g \in Groups(map) :
              \E i \in 1 .. Len(structures) :
                  /\ structures[i].blocks # <<>>
                  /\ SeqToSet(structures[i].blocks) \subseteq g
                  /\ structures[i].typ = Shape(g)

\* what holds of every map: a structure stays inside one group
C30_StructureInsideGroup ==
    Called("map", "find_structures") =>
        \A i \in 1 .. Len(structures) :
            /\ structures[i].blocks # <<>>
            /\ \E g \in Groups(map) : SeqToSet(structures[i].blocks) \subseteq g

---------------------------------------------------------------------------
(* Properties of one step_logic call as a whole *)

\* the Action messages the scheduler logged this turn, in order
SchedulerLogs == SelectSeq(events, LAMBDA x : x.ev = "log" /\ x.by = "scheduler")

\* C33: when step_logic returns, the scheduler has logged exactly one Action
\* for the player, as the first message of the turn, and then at most one
\* per AI entity; the AI entities were collected once, and every collected
\* entity that was in the store up to the sweep has had its Action logged,
\* whatever became of its alive flag and of its Fighter in the meantime.
C33_OneActionEach ==
    pc = "return" =>
        LET S == SchedulerLogs
        IN  /\ Len(S) >= 1
            /\ events[1] = S[1]
            /\ S[1].msg.id = locals.player_id
            /\ \A i \in 2 .. Len(S) : S[i].msg.id # locals.player_id
            /\ \A i, j \in 1 .. Len(S) : i < j => S[i].msg.id # S[j].msg.id
            /\ Len(EventsOf("collect")) = 1
            /\ \A i \in 2 .. Len(S) :
                   Collected.player_alive /\ S[i].msg.id \in Collected.combatants
            /\ Collected.player_alive =>
                   \A k \in Collected.combatants :
                       k \in Live(Swept.before) =>
                           \E i \in 2 .. Len(S) : S[i].msg.id = k

\* C33 witness: an AI entity's Action is logged after the resolution of an
\* earlier AI entity's Action killed it
C33_Witness ==
    /\ pc = "return"
    /\ \E c, k, i \in 1 .. Len(events) :
           /\ c < k /\ k < i
           /\ events[c].ev = "collect"
           /\ events[k].ev = "resolve" /\ events[k].msg.kind = "Killed"
           /\ IsAiLog(i) /\ events[i].msg.id = events[k].msg.target

\* step_playing has run a turn and returned: the main loop is about to display
AfterStepPlaying == pc = "display" /\ caller = "step_playing"

\* the player of the turn is in the store with a Fighter of hp <= 0
PlayerDied ==
    /\ locals.player_id \in Live(entities)
    /\ Has(entities.fighter, locals.player_id)
    /\ entities.fighter[locals.player_id].hp <= 0

\* C34: a turn of step_playing after which the player's hp is <= 0 leaves
\* the game in the state Lose, also with the goal item carried on the exit
\* tile.
C34_DeadPlayerLoses ==
    (AfterStepPlaying /\ PlayerDied) => settings.state = "Lose"

\* what step_playing does: the win check comes after step_logic and
\* overwrites the Lose that step_logic set
C34_DeadPlayerLosesUnlessWin ==
    (AfterStepPlaying /\ PlayerDied) =>
        settings.state = IF win_condition_met(entities) THEN "Win" ELSE "Lose"

\* a player died in step_playing away from the exit: the state is Lose
C34_WitnessLose ==
    AfterStepPlaying /\ PlayerDied /\ settings.state = "Lose"

\* a player carrying the goal item died on the exit tile in step_playing
C34_WitnessOnExit ==
    AfterStepPlaying /\ PlayerDied /\ win_condition_met(entities)

\* C35: Lose is absorbing: between and during step_game calls the state
\* stays Lose, and a step_game call in the state Lose runs no turn (it goes
\* straight to the display), leaves the entity store, the message log and
\* turn_count as they are, and returns Stop exactly for the input Exit.
C35_LoseAbsorbing ==
    [][(settings.state = "Lose" /\ pc \in {"step_game", "display", "exit"}) =>
          /\ settings'.state = "Lose"
          /\ pc = "step_game" =>
                /\ pc' = "display"
                /\ entities' = entities
                /\ msg_log' = msg_log
                /\ settings' = settings
                /\ (game_result' = "Stop") <=> (input_action'.type = "Exit")
                /\ (game_result' = "Continue") <=> (input_action'.type # "Exit")]_vars

\* step_lose has returned (no other step_* function leaves the state Lose
\* without having run a turn)
AfterStepLose == pc = "display" /\ settings.state = "Lose" /\ caller = "none"

\* C35 witness: step_lose returned Continue for an input other than Exit
C35_Witness == AfterStepLose /\ game_result = "Continue" /\ input_action.type = "Move"

\* step_lose returned Stop for the input Exit
C35_WitnessStop == AfterStepLose /\ game_result = "Stop" /\ input_action.type = "Exit"

\* the step that ends a step_game call in which step_logic ran
TurnReturns == pc = "return" /\ pc' = "display"

\* C36: turn_count goes up by exactly one in every step_game call that ran
\* step_logic, whichever step_* function called it, and no other step
\* changes it.
C36_TurnCount ==
    [][IF TurnReturns
       THEN settings'.turn_count = settings.turn_count + 1
       ELSE settings'.turn_count = settings.turn_count]_vars

\* what the step_* functions do: only step_playing counts its turn
C36_TurnCountPlayingOnly ==
    [][IF TurnReturns /\ caller = "step_playing"
       THEN settings'.turn_count = settings.turn_count + 1
       ELSE settings'.turn_count = settings.turn_count]_vars

\* a turn taken by step_throwing, step_interact or step_selection has returned
C36_WitnessModalTurn ==
    pc = "display" /\ caller \in {"step_throwing", "step_interact", "step_selection"}

\* how often id stands in the list s
Occurrences(s, id) == Cardinality({i \in 1 .. Len(s) : s[i] = id})

\* C37: the removal list of a sweep holds every id at most once, also the
\* id of an entity whose count down is 0 and whose needs_removal flag is set
\* with an empty animation queue.
C37_RemovedOnce ==
    HasSwept =>
        \A id \in Live(Swept.before) : Occurrences(Swept.to_remove, id) <= 1

\* what the two tests of the sweep do: an id is listed once per test it
\* meets, twice if it meets both
C37_RemovedOncePerTest ==
    HasSwept =>
        \A id \in Live(Swept.before) :
            Occurrences(Swept.to_remove, id) =
                (IF Has(Swept.before.count_down, id) /\ Swept.before.count_down[id] = 0
                 THEN 1 ELSE 0)
              + (IF Swept.before.needs_removal[id]
                    /\ Len(Swept.before.animation[id]) = 0
                 THEN 1 ELSE 0)

\* a sweep met an entity with count down 0, the flag set and no animation
C37_WitnessBoth ==
    /\ HasSwept
    /\ \E id \in Live(Swept.before) :
           /\ Has(Swept.before.count_down, id) /\ Swept.before.count_down[id] = 0
           /\ Swept.before.needs_removal[id]
           /\ Len(Swept.before.animation[id]) = 0

---------------------------------------------------------------------------
(* Properties of Selection *)

\* the action the kind of the selection stands for, made of position p
ActionOfKind(kind, p) ==
    IF kind = "Throw" THEN ThrowItem(p, PlayerId) ELSE UseItem(p)

\* C38: action_from_pos returns ThrowItem(pos, player id) for a Throw
\* selection and UseItem(pos) for a Hammer selection, and select returns the
\* same for the position selected_pos picks.
C38_ActionByKind ==
    /\ Called("selection", "action_from_pos") =>
           selection.result = <<ActionOfKind(selection.action, selection.pos)>>
    /\ Called("selection", "select") =>
           selection.result =
               <<ActionOfKind(selection.action,
                              selected_pos(selection, selection.pos, selection.selected))>>

\* what the match does: ThrowItem for every kind of selection
C38_AlwaysThrowItem ==
    /\ Called("selection", "action_from_pos") =>
           selection.result = <<ThrowItem(selection.pos, PlayerId)>>
    /\ Called("selection", "select") =>
           selection.result =
               <<ThrowItem(selected_pos(selection, selection.pos, selection.selected),
                           PlayerId)>>

\* select has answered a Hammer selection
C38_WitnessHammer ==
    Called("selection", "select") /\ selection.action = "Hammer"

---------------------------------------------------------------------------
(* Properties of the vault parsers *)

\* the cells of a line: what stands between its commas
RECURSIVE SplitCells(_)
SplitCells(s) ==
    IF \A i \in 1 .. Len(s) : s[i] # "," THEN <<s>>
    ELSE LET i == CHOOSE k \in 1 .. Len(s) :
                      s[k] = "," /\ \A j \in 1 .. (k - 1) : s[j] # ","
         IN  <<SubSeq(s, 1, i - 1)>> \o SplitCells(SubSeq(s, i + 1, Len(s)))

\* the cells in order, a space for every empty one
RECURSIVE JoinCells(_)
JoinCells(cells) ==
    IF cells = <<>> THEN <<>>
    ELSE (IF Head(cells) = <<>> THEN <<" ">> ELSE Head(cells)) \o JoinCells(Tail(cells))

\* the line remove_commas was called with
CleanedLine == events[1].before.lines[events[1].arg]

\* C31: remove_commas of a non-empty line is the line's comma-separated
\* cells in order, every empty cell replaced by one space; no comma is
\* left, and a line without commas comes back unchanged.
C31_CellsJoined ==
    Called("text", "remove_commas") =>
        /\ text.result = JoinCells(SplitCells(CleanedLine))
        /\ \A i \in 1 .. Len(text.result) : text.result[i] # ","
        /\ (\A i \in 1 .. Len(CleanedLine) : CleanedLine[i] # ",") =>
               text.result = CleanedLine

\* C31 witness: a line with a leading comma, two adjacent commas, a trailing
\* comma and a cell that is not empty
C31_Witness ==
    /\ Called("text", "remove_commas")
    /\ Len(CleanedLine) >= 4
    /\ CleanedLine[1] = "," /\ CleanedLine[Len(CleanedLine)] = ","
    /\ \E i \in 2 .. (Len(CleanedLine) - 2) :
           CleanedLine[i] = "," /\ CleanedLine[i + 1] = ","
    /\ \E i \in 1 .. Len(CleanedLine) : CleanedLine[i] = "9"

\* the grid parse_ascii_chars was called with
ParsedLines == events[1].before.lines

\* tile (x, y) of the result is decoded from the three characters of its cell
DecodedFromCells(lines, vault) ==
    \A x \in 0 .. (vault.width - 1), y \in 0 .. (vault.height - 1) :
        vault.tiles[<<x, y>>] =
            tile_from_ascii(At(lines, 2 * y, 2 * x + 1), At(lines, 2 * y, 2 * x),
                            At(lines, 2 * y + 1, 2 * x + 1)).tile

\* C32: a grid of 2*H rows and 2*W columns gives a vault map W wide and H
\* high, tile (x, y) decoded from lines[2y][2x+1] with its left wall from
\* lines[2y][2x] and its bottom wall from lines[2y+1][2x+1]; 6 rows of 4
\* characters give a map 2 wide and 3 high.
C32_GridToVault ==
    (/\ Called("text", "parse_ascii_chars")
     /\ Len(ParsedLines) % 2 = 0
     /\ Len(ParsedLines[1]) % 2 = 0) =>
        /\ text.result.height = Len(ParsedLines) \div 2
        /\ text.result.width = Len(ParsedLines[1]) \div 2
        /\ DecodedFromCells(ParsedLines, text.result)

\* what parse_ascii_chars does: the width is (columns - 1) / 2, so the tile
\* of the last pair of columns of a grid with 2*W columns is left out; the
\* tiles that are made are decoded as stated
C32_GridToVaultLessOne ==
    Called("text", "parse_ascii_chars") =>
        /\ text.result.height = Len(ParsedLines) \div 2
        /\ text.result.width = (Len(ParsedLines[1]) - 1) \div 2
        /\ DOMAIN text.result.tiles =
               (0 .. (text.result.width - 1)) \X (0 .. (text.result.height - 1))
        /\ DecodedFromCells(ParsedLines, text.result)

\* the grid of test_parse_vault has been parsed
C32_WitnessTestGrid ==
    Called("text", "parse_ascii_chars") /\ ParsedLines = TestGrid

====
